---- MODULE Spec2Model ----
(***************************************************************************)
(* A model of doc-factory's contract-verification harness (src/src/qa).    *)
(* Each *_proof.py entry point is a sequential process that talks to the   *)
(* generation service (an external black box: its responses and its writes *)
(* to the artifact store are nondeterministic choices from small sets),    *)
(* reads the artifacts the service persisted, computes a verdict and       *)
(* prints one JSON report.                                                 *)
(*                                                                         *)
(* Three specifications share the variables:                               *)
(*   Spec        one run of one entry point, step by step;                 *)
(*   SpecPage    the page metric page_has_minimum_content over bounded     *)
(*               pages;                                                    *)
(*   SpecExport  post_export's normalisation over bounded wire responses.  *)
(***************************************************************************)
EXTENDS Integers, Sequences, FiniteSets, TLC

VARIABLES
    entry,      \* the entry point that is running
    pc,         \* the position in its main()
    images,     \* the image files in images/
    jobs,       \* the service's artifact store: request hash -> files
    mtime,      \* st_mtime of each job's layout.json (layout-density run)
    caseNo,     \* multi-case runners: index of the case being run
    responses,  \* post_export results held by the running main()/run_case()
    locals,     \* further local variables of main()
    results,    \* multi-case runners: the case results so far
    report,     \* the JSON reports printed to standard output
    exitCode,   \* exit status of the process (Running until it ends)
    uncaught,   \* the exception that ended the process, if any
    log,        \* history: the calls made so far, in order
    snap,       \* history: job A's files when A's export returned
    page,       \* SpecPage: the page under evaluation
    pageResult, \* SpecPage: what page_has_minimum_content returned
    wire,       \* SpecExport: the HTTP exchange handed to post_export
    norm        \* SpecExport: what post_export returned or raised

runVars == <<entry, pc, images, jobs, mtime, caseNo, responses, locals, results,
             report, exitCode, uncaught, log, snap>>
pageVars == <<page, pageResult>>
exportVars == <<wire, norm>>
otherVars == <<page, pageResult, wire, norm>>
vars == <<entry, pc, images, jobs, mtime, caseNo, responses, locals, results,
          report, exitCode, uncaught, log, snap, page, pageResult, wire, norm>>

\* Python's None, the empty str, and a process that has not exited yet.
NONE == "<None>"
EMPTY == ""
Running == -1

(***************************************************************************)
(* Text.  A Python str is a sequence of one-character strings.             *)
(***************************************************************************)
Uppers ==
    <<"A", "B", "C", "D", "E", "F", "G", "H", "I", "J", "K", "L", "M",
      "N", "O", "P", "Q", "R", "S", "T", "U", "V", "W", "X", "Y", "Z">>
Lowers ==
    <<"a", "b", "c", "d", "e", "f", "g", "h", "i", "j", "k", "l", "m",
      "n", "o", "p", "q", "r", "s", "t", "u", "v", "w", "x", "y", "z">>

\* str.lower() and str.upper() of one ASCII character
LowerChar(c) ==
    IF \E i \in DOMAIN Uppers : Uppers[i] = c
    THEN Lowers[CHOOSE i \in DOMAIN Uppers : Uppers[i] = c] ELSE c

UpperChar(c) ==
    IF \E i \in DOMAIN Lowers : Lowers[i] = c
    THEN Uppers[CHOOSE i \in DOMAIN Lowers : Lowers[i] = c] ELSE c

lower(s) == [i \in 1..Len(s) |-> LowerChar(s[i])]

upper(s) == [i \in 1..Len(s) |-> UpperChar(s[i])]

\* str.isspace() of one character
IsSpace(c) == c \in {" ", "\t", "\n", "\r"}

RECURSIVE lstrip(_)
lstrip(s) ==
    IF s = <<>> THEN <<>>
    ELSE IF IsSpace(Head(s)) THEN lstrip(Tail(s)) ELSE s

RECURSIVE rstrip(_)
rstrip(s) ==
    IF s = <<>> THEN <<>>
    ELSE IF IsSpace(s[Len(s)]) THEN rstrip(SubSeq(s, 1, Len(s) - 1)) ELSE s

strip(s) == rstrip(lstrip(s))

\* needle in s
Contains(needle, s) ==
    \E i \in 0..(Len(s) - Len(needle)) : SubSeq(s, i + 1, i + Len(needle)) = needle

startswith(s, prefix) ==
    Len(s) >= Len(prefix) /\ SubSeq(s, 1, Len(prefix)) = prefix

TITLE == <<"t", "i", "t", "l", "e">>
SUBTITLE == <<"s", "u", "b", "t", "i", "t", "l", "e">>
BODY == <<"b", "o", "d", "y">>
CALLOUT == <<"c", "a", "l", "l", "o", "u", "t">>
BULLET == <<"-", " ">>
NoneText == <<"N", "o", "n", "e">>

(***************************************************************************)
(* Parsed JSON.  An optional string field is absent, null or a string.     *)
(***************************************************************************)
Absent == [tag |-> "absent", s |-> <<>>]
Null == [tag |-> "null", s |-> <<>>]
Str(chars) == [tag |-> "str", s |-> chars]

\* str(d.get(key, ""))
str_get(field) ==
    CASE field.tag = "absent" -> <<>>
      [] field.tag = "null" -> NoneText
      [] OTHER -> field.s

\* bool(d.get("debugOnly")): only a JSON true (of the values modelled) is truthy
Truthy(flag) == flag = "true"

Element(type, id, text, debugOnly) ==
    [isdict |-> TRUE, type |-> type, id |-> id, text |-> text, debugOnly |-> debugOnly]

\* an entry of "elements" that is not a JSON object
NonDictElement ==
    [isdict |-> FALSE, type |-> "absent", id |-> Absent, text |-> Absent, debugOnly |-> "absent"]

\* a page: "elements" is a list (tag "list"), or absent, or null
Page(tag, items) == [isdict |-> TRUE, elements |-> [tag |-> tag, items |-> items]]

NonDictPage == [isdict |-> FALSE, elements |-> [tag |-> "absent", items |-> <<>>]]

(***************************************************************************)
(* content_completeness_proof.page_has_minimum_content                     *)
(***************************************************************************)
\* the elements that reach the counters: dict, type text, not debug-only,
\* stripped text of at least two characters
Counted(element) ==
    /\ element.isdict
    /\ element.type = "text"
    /\ ~Truthy(element.debugOnly)
    /\ Len(strip(str_get(element.text))) >= 2

\* a variant of IsTitle that forgets the subtitle exclusion
IsTitle_CountsSubtitle(element) ==
    Contains(TITLE, lower(str_get(element.id)))

IsTitle(element) ==
    LET element_id == lower(str_get(element.id))
    IN  Contains(TITLE, element_id) /\ ~Contains(SUBTITLE, element_id)

IsBodyOrCallout(element) ==
    LET element_id == lower(str_get(element.id))
        text == strip(str_get(element.text))
    IN  \/ Contains(BODY, element_id)
        \/ Contains(CALLOUT, element_id)
        \/ startswith(text, BULLET)

\* the loop of lines 87-103: the two counters after the first n elements
RECURSIVE CountLoop(_, _)
CountLoop(items, n) ==
    IF n = 0 THEN [title_count |-> 0, body_or_callout_count |-> 0]
    ELSE LET prev == CountLoop(items, n - 1)
             element == items[n]
         IN  IF ~Counted(element) THEN prev
             ELSE [title_count |->
                       prev.title_count + (IF IsTitle(element) THEN 1 ELSE 0),
                   body_or_callout_count |->
                       prev.body_or_callout_count
                           + (IF IsBodyOrCallout(element) THEN 1 ELSE 0)]

page_has_minimum_content(p) ==
    IF p.elements.tag # "list" THEN FALSE
    ELSE LET c == CountLoop(p.elements.items, Len(p.elements.items))
         IN  c.title_count >= 1 /\ c.body_or_callout_count >= 1

(***************************************************************************)
(* The export exchange.  What urlopen() hands back for POST                 *)
(* /api/export/pptx: a transport fault (connection refused, timeout), or    *)
(* an HTTP response with a status, headers and a body.  Only the headers    *)
(* and body keys that the harness reads are modelled.                       *)
(***************************************************************************)
Headers(request_hash, audit_hash, completeness, internal_terms) ==
    [request_hash |-> request_hash, audit_hash |-> audit_hash,
     completeness |-> completeness, internal_terms |-> internal_terms]

NoHeaders == Headers(NONE, NONE, NONE, NONE)

NoIssues == [islist |-> FALSE, items |-> <<>>]

\* a response body as sent: kind is empty | text (not JSON) | null | list |
\* emptylist | dict; the other fields are the keys of a dict body
\* (referenceUsageReport: absent | null | dict)
RawBody(kind, requestHash, exportAuditHash, referenceUsageReport, issues) ==
    [kind |-> kind, requestHash |-> requestHash, exportAuditHash |-> exportAuditHash,
     referenceUsageReport |-> referenceUsageReport, exportAuditIssues |-> issues]

PlainBody(kind) == RawBody(kind, NONE, NONE, "absent", NoIssues)

Exchange(fault, status, headers, body) ==
    [fault |-> fault, status |-> status, headers |-> headers, body |-> body]

Fault(kind) == Exchange(kind, 0, NoHeaders, PlainBody("empty"))

\* json.loads(raw_body) inside try/except JSONDecodeError: the parsed value,
\* None when the body is not JSON (and when it is the JSON null)
ParsedNone == PlainBody("null")

json_loads_or_none(body) ==
    IF body.kind \in {"empty", "text"} THEN ParsedNone ELSE body

IsDict(parsed) == parsed.kind = "dict"

\* bool(parsed): None and the empty list are falsy (a dict body is modelled
\* with at least one key)
IsTruthy(parsed) == parsed.kind \in {"list", "dict"}

\* (parsed or {}).get(key): AttributeError when parsed is a non-empty list
OrEmptyGetRaises(parsed) == IsTruthy(parsed) /\ ~IsDict(parsed)

OrEmptyGet(parsed, key) ==
    IF IsDict(parsed)
    THEN CASE key = "requestHash" -> parsed.requestHash
           [] key = "exportAuditHash" -> parsed.exportAuditHash
    ELSE NONE

\* what a post_export/post_form call gives its caller: a record, or an
\* exception (raised is the exception's name)
Returned(status, headers, body, request_hash, audit_hash) ==
    [raised |-> NONE, status |-> status, headers |-> headers, body |-> body,
     request_hash |-> request_hash, audit_hash |-> audit_hash]

Raised(exception) ==
    [raised |-> exception, status |-> 0, headers |-> NoHeaders, body |-> ParsedNone,
     request_hash |-> NONE, audit_hash |-> NONE]

\* urlopen raises URLError (or a socket timeout) on a transport fault; the
\* only except clause is for HTTPError
TransportError(x) == IF x.fault = "timeout" THEN "TimeoutError" ELSE "URLError"

\* urlopen returns for a 2xx status and raises HTTPError otherwise
IsHttpError(x) == x.status >= 400

\* content_completeness_proof / copy_density_proof / reference_gate_proof /
\* reference_index_proof / no_internal_terms_proof: status, headers, body
post_export_headers(x) ==
    IF x.fault # "none" THEN Raised(TransportError(x))
    ELSE IF ~IsHttpError(x) THEN Returned(x.status, x.headers, ParsedNone, NONE, NONE)
    ELSE Returned(x.status, x.headers, json_loads_or_none(x.body), NONE, NONE)

\* determinism_proof: the hashes are taken from the headers (success) or
\* from the body (HTTPError); reference_status is read through
\* (parsed or {}).get("referenceUsageReport", {}).get(...)
post_export_determinism(x) ==
    IF x.fault # "none" THEN Raised(TransportError(x))
    ELSE IF ~IsHttpError(x)
    THEN Returned(x.status, NoHeaders, ParsedNone, x.headers.request_hash, x.headers.audit_hash)
    ELSE LET parsed == json_loads_or_none(x.body)
         IN  IF OrEmptyGetRaises(parsed) THEN Raised("AttributeError")
             ELSE IF IsDict(parsed) /\ parsed.referenceUsageReport = "null"
             THEN Raised("AttributeError")
             ELSE Returned(x.status, NoHeaders, parsed,
                           OrEmptyGet(parsed, "requestHash"),
                           OrEmptyGet(parsed, "exportAuditHash"))

\* job_isolation_proof: as determinism_proof, without reference_status
post_export_isolation(x) ==
    IF x.fault # "none" THEN Raised(TransportError(x))
    ELSE IF ~IsHttpError(x)
    THEN Returned(x.status, NoHeaders, ParsedNone, x.headers.request_hash, x.headers.audit_hash)
    ELSE LET parsed == json_loads_or_none(x.body)
         IN  IF OrEmptyGetRaises(parsed) THEN Raised("AttributeError")
             ELSE Returned(x.status, NoHeaders, parsed,
                           OrEmptyGet(parsed, "requestHash"),
                           OrEmptyGet(parsed, "exportAuditHash"))

\* export_gate_proof.post_form: status and content type, or status and the
\* raw body; nothing is parsed
post_form(x) ==
    IF x.fault # "none" THEN Raised(TransportError(x))
    ELSE Returned(x.status, NoHeaders, ParsedNone, NONE, NONE)

NoCall == [variant |-> NONE, exchange |-> Fault("none")]
NotReturned == [called |-> FALSE, result |-> Raised(NONE)]

Variants == {"headers", "determinism", "isolation", "post_form"}

post_export(variant, x) ==
    CASE variant = "headers" -> post_export_headers(x)
      [] variant = "determinism" -> post_export_determinism(x)
      [] variant = "isolation" -> post_export_isolation(x)
      [] variant = "post_form" -> post_form(x)

(***************************************************************************)
(* SpecPage: pages of at most MaxElems elements, built one element at a    *)
(* time, then evaluated.                                                   *)
(***************************************************************************)
MaxElems == 2

TextValues ==
    { Absent, Null, Str(<<"a">>), Str(<<" ", "a", "b", " ">>), Str(<<" ", "-", " ", "x">>),
      Str(<<"a", " ">>) }

IdValues ==
    { Absent, Str(<<"T", "i", "t", "l", "e">>), Str(<<"S", "u", "b", "t", "i", "t", "l", "e">>),
      Str(<<"m", "y", "B", "o", "d", "y">>), Str(CALLOUT), Str(<<"t", "i", "t", "l", "e", "-", "b", "o", "d", "y">>) }

ElementDomain ==
    { Element("text", id, text, "absent") : id \in IdValues, text \in TextValues }
    \cup { Element(type, Str(TITLE), Str(<<"a", "b">>), debugOnly) :
             type \in {"text", "image", "absent"}, debugOnly \in {"false", "true", "null"} }
    \cup { Element("text", Str(BODY), Str(<<"a", "b">>), "true"), NonDictElement }

NotEvaluated == [evaluated |-> FALSE, value |-> FALSE]
PageIdle == page = Page("absent", <<>>) /\ pageResult = NotEvaluated
ExportIdle == wire = NoCall /\ norm = NotReturned
RunIdle ==
    /\ entry = NONE
    /\ pc = "idle"
    /\ images = {}
    /\ jobs = NONE
    /\ mtime = NONE
    /\ caseNo = 0
    /\ responses = <<>>
    /\ locals = NONE
    /\ results = <<>>
    /\ report = <<>>
    /\ exitCode = Running
    /\ uncaught = NONE
    /\ log = <<>>
    /\ snap = NONE

InitPage ==
    /\ RunIdle
    /\ ExportIdle
    /\ page \in { Page(tag, <<>>) : tag \in {"list", "absent", "null"} }
    /\ pageResult = NotEvaluated

PageAddElement ==
    /\ ~pageResult.evaluated
    /\ page.elements.tag = "list"
    /\ Len(page.elements.items) < MaxElems
    /\ \E element \in ElementDomain :
          page' = [page EXCEPT !.elements.items = Append(@, element)]
    /\ UNCHANGED <<pageResult, runVars, exportVars>>

PageEvaluate ==
    /\ ~pageResult.evaluated
    /\ pageResult' = [evaluated |-> TRUE, value |-> page_has_minimum_content(page)]
    /\ UNCHANGED <<page, runVars, exportVars>>

NextPage == PageAddElement \/ PageEvaluate

SpecPage == InitPage /\ [][NextPage]_vars

(***************************************************************************)
(* SpecExport: one post_export call on each exchange of ExchangeDomain.     *)
(***************************************************************************)
SuccessExchanges ==
    { Exchange("none", 200, Headers(rh, ah, NONE, NONE), PlainBody("empty")) :
        rh \in {NONE, EMPTY, "h1", "h2"}, ah \in {NONE, EMPTY, "a1"} }

ErrorBodies ==
    { PlainBody(kind) : kind \in {"empty", "text", "null", "list", "emptylist"} }
    \cup { RawBody("dict", rh, ah, usage, NoIssues) :
             rh \in {NONE, "h1"}, ah \in {NONE, "a1"}, usage \in {"absent", "null", "dict"} }

ErrorExchanges ==
    { Exchange("none", status, NoHeaders, body) :
        status \in {400, 404, 500}, body \in ErrorBodies }

FaultExchanges == { Fault("refused"), Fault("timeout") }

ExchangeDomain == SuccessExchanges \cup ErrorExchanges \cup FaultExchanges


InitExport ==
    /\ RunIdle
    /\ PageIdle
    /\ wire \in [variant : Variants, exchange : ExchangeDomain]
    /\ norm = NotReturned

ApplyPostExport ==
    /\ ~norm.called
    /\ norm' = [called |-> TRUE, result |-> post_export(wire.variant, wire.exchange)]
    /\ UNCHANGED <<wire, runVars, pageVars>>

NextExport == ApplyPostExport

SpecExport == InitExport /\ [][NextExport]_vars

Min(a, b) == IF a <= b THEN a ELSE b

(***************************************************************************)
(* copy_density_proof.collect_page_density                                 *)
(***************************************************************************)
\* str(d.get(key) or ""): absent, null and "" all read as ""
str_or_empty(field) == IF field.tag = "str" THEN field.s ELSE <<>>

\* a JSON number field: absent, null, or a number (millimetres for a
\* length, thousandths of a point for a font size)
Num(n) == [tag |-> "num", n |-> n]

\* float(d.get(key) or 0)
float_or_zero(field) == IF field.tag = "num" THEN field.n ELSE 0

\* the positions of s that survive " ".join(s.split()): every character that
\* is not whitespace, and the first whitespace of each run that has a word
\* before it and a word after it
KeptPositions(s) ==
    { i \in DOMAIN s :
        \/ ~IsSpace(s[i])
        \/ /\ i > 1
           /\ ~IsSpace(s[i - 1])
           /\ \E j \in (i + 1)..Len(s) : ~IsSpace(s[j]) }

\* the characters of s at the positions kept, in order, a kept whitespace
\* as one blank
Joined(s, kept) ==
    [k \in 1..Cardinality(kept) |->
        LET i == CHOOSE x \in kept : Cardinality({ y \in kept : y <= x }) = k
        IN  IF IsSpace(s[i]) THEN " " ELSE s[i]]

\* " ".join(text.split())
split_join(s) == Joined(s, KeptPositions(s))

\* an element with the fields the density extractors read
DensityElement(type, id, role, text, debugOnly, fontSizePt) ==
    [isdict |-> TRUE, type |-> type, id |-> id, role |-> role, text |-> text,
     debugOnly |-> debugOnly, fontSizePt |-> fontSizePt]

HEADER == <<"h", "e", "a", "d", "e", "r">>
TABLE == <<"t", "a", "b", "l", "e">>
FLOW == <<"f", "l", "o", "w">>

is_body_like(element_id) ==
    \E token \in {BODY, CALLOUT, TABLE, FLOW} : Contains(token, element_id)

NoDensity == [text_chars |-> 0, text_blocks |-> 0, body_seen |-> FALSE, body_font_min_pt |-> 0]

\* the loop of lines 82-108 over the first n elements; body_seen is
\* "body_font_min_pt is not None"
RECURSIVE DensityLoop(_, _)
DensityLoop(items, n) ==
    IF n = 0 THEN NoDensity
    ELSE LET prev == DensityLoop(items, n - 1)
             element == items[n]
         IN  IF ~element.isdict THEN prev
             ELSE IF element.type # "text" THEN prev
             ELSE IF Truthy(element.debugOnly) THEN prev
             ELSE IF str_or_empty(element.role) = HEADER THEN prev
             ELSE LET text == strip(split_join(str_or_empty(element.text)))
                      element_id == lower(str_or_empty(element.id))
                      font_size == float_or_zero(element.fontSizePt)
                  IN  IF text = <<>> THEN prev
                      ELSE [text_chars |-> prev.text_chars + Len(text),
                            text_blocks |-> prev.text_blocks + 1,
                            body_seen |-> prev.body_seen \/ is_body_like(element_id),
                            body_font_min_pt |->
                                IF ~is_body_like(element_id) THEN prev.body_font_min_pt
                                ELSE IF ~prev.body_seen THEN font_size
                                ELSE Min(prev.body_font_min_pt, font_size)]

\* round(x, 2) of a size held in thousandths of a point: the nearest
\* hundredth, ties to even
round2(x) ==
    IF x % 10 > 5 THEN 10 * ((x \div 10) + 1)
    ELSE IF x % 10 = 5 THEN 10 * ((x \div 10) + ((x \div 10) % 2))
    ELSE 10 * (x \div 10)

\* lines 110-116: the record returned for the page
density_returned(loop) ==
    [text_chars |-> loop.text_chars,
     text_blocks |-> loop.text_blocks,
     body_seen |-> loop.body_seen,
     body_font_min_pt |-> round2(loop.body_font_min_pt)]

\* collect_page_density(page); iterating an "elements" that is null raises
collect_page_density(p) ==
    IF p.elements.tag = "null"
    THEN [raised |-> "TypeError", density |-> NoDensity]
    ELSE [raised |-> NONE,
          density |-> density_returned(DensityLoop(p.elements.items, Len(p.elements.items)))]

(***************************************************************************)
(* layout_density_proof: element_area, density_group_key, page_density,    *)
(* validate_page                                                           *)
(***************************************************************************)
SECTION_DIVIDER ==
    <<"S", "E", "C", "T", "I", "O", "N", "_", "D", "I", "V", "I", "D", "E", "R">>
SectionDividerRole ==
    <<"s", "e", "c", "t", "i", "o", "n", "-", "d", "i", "v", "i", "d", "e", "r">>
TextOnlyRole == <<"t", "e", "x", "t", "-", "o", "n", "l", "y">>
SkippedRoles ==
    { <<"b", "a", "c", "k", "g", "r", "o", "u", "n", "d">>, HEADER,
      <<"f", "o", "o", "t", "e", "r">>,
      <<"d", "e", "c", "o", "r", "a", "t", "i", "v", "e">> }

\* an element with the fields page_density reads
LayoutElement(type, id, role, text, debugOnly, wMm, hMm, collisionGroup) ==
    [isdict |-> TRUE, type |-> type, id |-> id, role |-> role, text |-> text,
     debugOnly |-> debugOnly, wMm |-> wMm, hMm |-> hMm, collisionGroup |-> collisionGroup]

\* a page with the fields page_density and main read; issues are the codes
\* of meta.validation.issues
LayoutPage(widthMm, heightMm, pageRole, templateId, issues, items) ==
    [isdict |-> TRUE, elements |-> [tag |-> "list", items |-> items],
     widthMm |-> widthMm, heightMm |-> heightMm, pageRole |-> pageRole,
     templateId |-> templateId, issues |-> issues]

Max(a, b) == IF a >= b THEN a ELSE b

\* a variant of element_area that gives a line its bounding box
element_area_CountsLines(element) ==
    Max(0, float_or_zero(element.wMm) * float_or_zero(element.hMm))

element_area(element) ==
    IF element.type = "line" THEN 0
    ELSE Max(0, float_or_zero(element.wMm) * float_or_zero(element.hMm))

\* str(element.get("type", "unknown"))
TypeChars(type) ==
    CASE type = "text" -> <<"t", "e", "x", "t">>
      [] type = "line" -> <<"l", "i", "n", "e">>
      [] type = "image" -> <<"i", "m", "a", "g", "e">>
      [] OTHER -> <<"u", "n", "k", "n", "o", "w", "n">>

DigitChar == <<"0", "1", "2", "3", "4", "5", "6", "7", "8", "9">>

RECURSIVE Digits(_)
Digits(n) ==
    IF n < 10 THEN <<DigitChar[n + 1]>>
    ELSE Append(Digits(n \div 10), DigitChar[(n % 10) + 1])

density_group_key(element, index) ==
    IF strip(str_or_empty(element.collisionGroup)) # <<>>
    THEN strip(str_or_empty(element.collisionGroup))
    ELSE IF strip(str_or_empty(element.id)) # <<>>
    THEN strip(str_or_empty(element.id))
    ELSE TypeChars(element.type) \o <<"-">> \o Digits(index)

\* groups[key] = max(groups.get(key, 0.0), area)
PutMax(groups, key, area) ==
    [k \in DOMAIN groups \cup {key} |->
        IF k = key THEN Max(IF key \in DOMAIN groups THEN groups[key] ELSE 0, area)
        ELSE groups[k]]

NoGroups == [k \in {} |-> 0]

\* lines 96-103 for one element that is not skipped
LayoutElementStep(prev, element, index, area) ==
    [text_chars |-> prev.text_chars
                    + (IF element.type = "text"
                       THEN Len(split_join(str_or_empty(element.text))) ELSE 0),
     groups |-> IF area <= 0 THEN prev.groups
                ELSE PutMax(prev.groups, density_group_key(element, index), area)]

\* lines 86-93
layout_skipped(element) ==
    \/ ~element.isdict
    \/ element.debugOnly = "true"
    \/ str_or_empty(element.role) \in SkippedRoles

\* the loop of lines 85-103 over the first n elements
RECURSIVE LayoutDensityLoop(_, _)
LayoutDensityLoop(items, n) ==
    IF n = 0 THEN [text_chars |-> 0, groups |-> NoGroups]
    ELSE IF layout_skipped(items[n]) THEN LayoutDensityLoop(items, n - 1)
    ELSE LayoutElementStep(LayoutDensityLoop(items, n - 1), items[n], n - 1,
                           element_area(items[n]))

RECURSIVE SumValues(_, _)
SumValues(f, keys) ==
    IF keys = {} THEN 0
    ELSE LET k == CHOOSE x \in keys : TRUE
         IN  f[k] + SumValues(f, keys \ {k})

\* round(a / b, 4) in ten-thousandths, ties to even
round4(a, b) ==
    LET q == (a * 10000) \div b
        r == (a * 10000) % b
    IN  IF 2 * r > b THEN q + 1
        ELSE IF 2 * r = b THEN q + (q % 2)
        ELSE q

\* max(1.0, float(page.get(key, 1) or 1))
page_side(field) == Max(1, IF field.tag = "num" /\ field.n # 0 THEN field.n ELSE 1)

\* lines 105-113, coverage_ratio in ten-thousandths
density_record(p, page_area, loop) ==
    [role |-> str_or_empty(p.pageRole),
     template |-> str_or_empty(p.templateId),
     text_chars |-> loop.text_chars,
     coverage_ratio |-> round4(SumValues(loop.groups, DOMAIN loop.groups), page_area),
     content_groups |-> Cardinality(DOMAIN loop.groups)]

\* page_density(page)
page_density(p) ==
    density_record(p, page_side(p.widthMm) * page_side(p.heightMm),
                   LayoutDensityLoop(p.elements.items, Len(p.elements.items)))

\* the three threshold sets of lines 123-134
\* a variant of below_threshold that also rejects a value at the minimum
below_threshold_AtMinimum(density, chars, coverage, groups) ==
    \/ density.text_chars <= chars
    \/ density.coverage_ratio <= coverage
    \/ density.content_groups <= groups

below_threshold(density, chars, coverage, groups) ==
    \/ density.text_chars < chars
    \/ density.coverage_ratio < coverage
    \/ density.content_groups < groups

\* validate_page(density): the reason, NONE when the page passes
validate_page(density) ==
    IF upper(density.template) = SECTION_DIVIDER \/ lower(density.role) = SectionDividerRole
    THEN IF below_threshold(density, 70, 2200, 3)
         THEN "section-divider density below threshold" ELSE NONE
    ELSE IF lower(density.role) = TextOnlyRole
    THEN IF below_threshold(density, 78, 2200, 3)
         THEN "text-only density below threshold" ELSE NONE
    ELSE IF below_threshold(density, 58, 1800, 2)
    THEN "general density below threshold" ELSE NONE

(***************************************************************************)
(* Gate issues in an error body: has_internal_term_gate_issue,             *)
(* has_reference_source_gate_issue, has_reference_gate_issue               *)
(***************************************************************************)
Issue(message) == [isdict |-> TRUE, message |-> message]
NonDictIssue == [isdict |-> FALSE, message |-> Absent]
IssueList(items) == [islist |-> TRUE, items |-> items]

INTERNAL_TERM_MARKER ==
    <<"i", "n", "t", "e", "r", "n", "a", "l", " ", "t", "e", "r", "m", " ", "l", "e",
      "a", "k", "a", "g", "e", " ", "d", "e", "t", "e", "c", "t", "e", "d">>
STYLE_MARKER ==
    <<"s", "t", "y", "l", "e", "P", "r", "e", "s", "e", "t", ".", "s", "o", "u", "r",
      "c", "e", " ", "m", "u", "s", "t", " ", "b", "e", " ", "r", "e", "f", "e",
      "r", "e", "n", "c", "e", "s">>
LAYOUT_MARKER ==
    <<"l", "a", "y", "o", "u", "t", "P", "l", "a", "n", ".", "s", "o", "u", "r", "c",
      "e", " ", "m", "u", "s", "t", " ", "b", "e", " ", "r", "e", "f", "e", "r",
      "e", "n", "c", "e", "s">>
FRESH_MARKER ==
    <<"r", "e", "f", "e", "r", "e", "n", "c", "e", " ", "i", "n", "d", "e", "x", " ",
      "m", "u", "s", "t", " ", "b", "e", " ", "f", "r", "e", "s", "h">>

\* body is a dict, its exportAuditIssues is a list, and the message of one
\* of its dict entries contains the marker
issue_mentions(body, marker) ==
    /\ IsDict(body)
    /\ body.exportAuditIssues.islist
    /\ \E i \in DOMAIN body.exportAuditIssues.items :
          /\ body.exportAuditIssues.items[i].isdict
          /\ Contains(marker, str_get(body.exportAuditIssues.items[i].message))

has_internal_term_gate_issue(response) == issue_mentions(response.body, INTERNAL_TERM_MARKER)

\* a variant of has_reference_source_gate_issue that is content with one marker
has_reference_source_gate_issue_EitherMarker(response) ==
    \/ issue_mentions(response.body, STYLE_MARKER)
    \/ issue_mentions(response.body, LAYOUT_MARKER)

has_reference_source_gate_issue(response) ==
    /\ issue_mentions(response.body, STYLE_MARKER)
    /\ issue_mentions(response.body, LAYOUT_MARKER)

has_reference_gate_issue(response) == issue_mentions(response.body, FRESH_MARKER)

(***************************************************************************)
(* no_internal_terms_proof: FORBIDDEN_PATTERNS, read_layout_texts,         *)
(* find_forbidden_hits                                                     *)
(***************************************************************************)
FORBIDDEN_WORDS ==
    { <<"r", "e", "q", "u", "e", "s", "t", "s", "p", "e", "c">>,
      <<"v", "a", "r", "i", "a", "n", "t", "i", "n", "d", "e", "x">>,
      <<"r", "e", "f", "e", "r", "e", "n", "c", "e", "d", "i", "g", "e", "s", "t">>,
      <<"l", "a", "y", "o", "u", "t">>,
      <<"v", "a", "l", "i", "d", "a", "t", "i", "o", "n">>,
      <<"t", "h", "e", "m", "e", "-", "f", "a", "c", "t", "o", "r", "y">>,
      <<"w", "e", "b", "a", "p", "p", "-", "t", "e", "s", "t", "i", "n", "g">> }

Digit09 == {"0", "1", "2", "3", "4", "5", "6", "7", "8", "9"}

\* \w of one ASCII character
IsWordChar(c) ==
    \/ \E i \in DOMAIN Lowers : Lowers[i] = c \/ Uppers[i] = c
    \/ c \in Digit09
    \/ c = "_"

\* re.compile(r"\bword\b", re.IGNORECASE).search(source)
search_word(word, source) ==
    \E i \in 1..(Len(source) - Len(word) + 1) :
        /\ lower(SubSeq(source, i, i + Len(word) - 1)) = word
        /\ i = 1 \/ ~IsWordChar(source[i - 1])
        /\ i + Len(word) > Len(source) \/ ~IsWordChar(source[i + Len(word)])

\* lines 95-101: the element contributes a text item
is_text_item(element) ==
    element.isdict /\ element.type = "text" /\ ~Truthy(element.debugOnly)

\* find_forbidden_hits(read_layout_texts(...)) for a parsed layout whose
\* pages are dicts: one hit per text item and pattern that matches
forbidden_hits(doc) ==
    IF doc.pages.tag # "list" THEN {}
    ELSE UNION { UNION { { <<i, j, word>> :
                            word \in { w \in FORBIDDEN_WORDS :
                                         /\ doc.pages.items[i].elements.tag = "list"
                                         /\ is_text_item(doc.pages.items[i].elements.items[j])
                                         /\ search_word(w, str_get(doc.pages.items[i].elements.items[j].text)) } } :
                        j \in DOMAIN doc.pages.items[i].elements.items } :
                 i \in DOMAIN doc.pages.items }

\* parsed.get("pages") on a layout that is not an object, and page.get(...)
\* on a page that is not one, raise AttributeError
texts_raise(doc) ==
    \/ ~doc.isdict
    \/ doc.pages.tag = "list" /\ \E i \in DOMAIN doc.pages.items : ~doc.pages.items[i].isdict

\* read_layout_texts for a parsed layout: the text of every text item, by
\* page and element position
read_layout_texts(doc) ==
    IF texts_raise(doc) THEN [raised |-> "AttributeError", texts |-> <<>>]
    ELSE [raised |-> NONE,
          texts |->
              IF doc.pages.tag # "list" THEN <<>>
              ELSE [at \in { ij \in UNION { {i} \X DOMAIN doc.pages.items[i].elements.items :
                                                i \in DOMAIN doc.pages.items } :
                               /\ doc.pages.items[ij[1]].elements.tag = "list"
                               /\ is_text_item(doc.pages.items[ij[1]].elements.items[ij[2]]) }
                     |-> str_get(doc.pages.items[at[1]].elements.items[at[2]].text)]]

\* page_density(page) as a call: page.get("elements", []) is None for a
\* null "elements", and enumerate(None) raises
page_density_call(p) ==
    IF p.elements.tag = "null" THEN [raised |-> "TypeError"]
    ELSE [raised |-> NONE, density |-> page_density(p)]

(***************************************************************************)
(* SpecFields: one page of a parsed layout whose optional fields are each   *)
(* absent, null or set, put to the four extractors.                        *)
(***************************************************************************)
FieldStrings(value) == {Absent, Null, Str(value)}

FieldNumbers(value) == {Absent, Null, Num(value)}

FieldElements ==
    [isdict : {TRUE}, type : {"text"},
     id : FieldStrings(<<"t", "i", "t", "l", "e", "-", "b", "o", "d", "y">>),
     role : FieldStrings(<<"a", "s", "i", "d", "e">>),
     text : FieldStrings(<<"-", " ", "a", "b">>),
     debugOnly : {"absent", "null", "false"},
     fontSizePt : FieldNumbers(12000),
     wMm : FieldNumbers(100),
     hMm : FieldNumbers(80),
     collisionGroup : FieldStrings(<<"g">>)]

FieldPage(widthMm, heightMm, tag, items) ==
    [isdict |-> TRUE, elements |-> [tag |-> tag, items |-> items],
     widthMm |-> widthMm, heightMm |-> heightMm, pageRole |-> Absent,
     templateId |-> Absent, issues |-> <<>>]

\* a layout of one page; "pages" and "elements" may be absent or null
FieldLayouts ==
    { [pages |-> "list", p |-> FieldPage(w, h, "list", <<element>>)] :
        w \in FieldNumbers(210), h \in FieldNumbers(297), element \in FieldElements }
    \cup { [pages |-> "list", p |-> FieldPage(Num(210), Num(297), tag, <<>>)] :
             tag \in {"list", "absent", "null"} }
    \cup { [pages |-> tag, p |-> FieldPage(Num(210), Num(297), "list", <<>>)] :
             tag \in {"absent", "null"} }

InitFields ==
    /\ RunIdle
    /\ ExportIdle
    /\ page \in FieldLayouts
    /\ pageResult = NotEvaluated

\* the four extractors on a layout
extract(layout) ==
    [minimum_content |-> page_has_minimum_content(layout.p),
     copy |-> collect_page_density(layout.p),
     layout |-> page_density_call(layout.p),
     texts |-> read_layout_texts([isdict |-> TRUE, requestHash |-> NONE,
                                  pages |-> [tag |-> layout.pages,
                                             items |-> IF layout.pages = "list"
                                                       THEN <<layout.p>> ELSE <<>>]])]

ApplyExtractors ==
    /\ ~pageResult.evaluated
    /\ pageResult' = [evaluated |-> TRUE, value |-> extract(page)]
    /\ UNCHANGED <<page, runVars, exportVars>>

NextFields == ApplyExtractors

SpecFields == InitFields /\ [][NextFields]_vars

(***************************************************************************)
(* SpecDensity: page_density on one page of up to MaxLayoutElems elements. *)
(***************************************************************************)
MaxLayoutElems == 2

\* collisionGroup and id of an element: neither, a blank group over an id,
\* a group, and an id that reads like the group
GroupingValues ==
    { <<Absent, Absent>>, <<Str(<<" ">>), Str(<<"a">>)>>,
      <<Str(<<"g", " ">>), Str(<<"a">>)>>, <<Null, Str(<<"g">>)>> }

\* role and debugOnly: counted, a header, a debug-only element
SkippingValues == { <<Absent, "false">>, <<Str(HEADER), "absent">>, <<Null, "true">> }

\* wMm and hMm: nearly the page, a block, no area
SizeValues == { <<Num(200), Num(290)>>, <<Num(100), Num(80)>>, <<Absent, Num(80)>> }

LayoutElementDomain ==
    { LayoutElement("image", g[2], k[1], Absent, k[2], z[1], z[2], g[1]) :
        g \in GroupingValues, k \in SkippingValues, z \in SizeValues }
    \cup { LayoutElement("line", Absent, Absent, Absent, "false", Num(100), Num(80),
                         Str(<<"g">>)),
           [LayoutElement("absent", Absent, Absent, Absent, "absent", Absent, Absent, Absent)
               EXCEPT !.isdict = FALSE] }

\* widthMm and heightMm of the page: A4, not given, not positive
PageSizeValues == { <<Num(210), Num(297)>>, <<Absent, Null>>, <<Num(0), Num(0 - 5)>> }

InitDensity ==
    /\ RunIdle
    /\ ExportIdle
    /\ \E z \in PageSizeValues : page = LayoutPage(z[1], z[2], Absent, Absent, <<>>, <<>>)
    /\ pageResult = NotEvaluated

DensityAddElement ==
    /\ ~pageResult.evaluated
    /\ Len(page.elements.items) < MaxLayoutElems
    /\ \E element \in LayoutElementDomain :
          page' = [page EXCEPT !.elements.items = Append(@, element)]
    /\ UNCHANGED <<pageResult, runVars, exportVars>>

DensityEvaluate ==
    /\ ~pageResult.evaluated
    /\ pageResult' = [evaluated |-> TRUE, value |-> page_density(page)]
    /\ UNCHANGED <<page, runVars, exportVars>>

NextDensity == DensityAddElement \/ DensityEvaluate

SpecDensity == InitDensity /\ [][NextDensity]_vars

(***************************************************************************)
(* SpecThresholds: validate_page on one density record.                    *)
(***************************************************************************)
RoleValues ==
    { <<>>, TextOnlyRole, <<"T", "e", "x", "t", "-", "O", "n", "l", "y">>,
      <<"S", "e", "c", "t", "i", "o", "n", "-", "D", "i", "v", "i", "d", "e", "r">>,
      <<"c", "o", "v", "e", "r">> }

TemplateValues ==
    { <<>>, SECTION_DIVIDER, lower(SECTION_DIVIDER), <<"C", "O", "V", "E", "R">> }

\* the records page_density may return, about the thresholds
DensityRecords ==
    [role : RoleValues, template : TemplateValues, text_chars : {57, 58, 69, 70, 77, 78},
     coverage_ratio : {1799, 1800, 2199, 2200}, content_groups : {1, 2, 3}]

InitThresholds ==
    /\ RunIdle
    /\ ExportIdle
    /\ page \in DensityRecords
    /\ pageResult = NotEvaluated

ApplyValidatePage ==
    /\ ~pageResult.evaluated
    /\ pageResult' = [evaluated |-> TRUE, value |-> validate_page(page)]
    /\ UNCHANGED <<page, runVars, exportVars>>

NextThresholds == ApplyValidatePage

SpecThresholds == InitThresholds /\ [][NextThresholds]_vars

(***************************************************************************)
(* SpecIssues: one export answer whose body carries up to MaxIssues issues, *)
(* normalised by post_export and then put to the three gate predicates.    *)
(***************************************************************************)
MaxIssues == 2

BOTH_MARKERS == STYLE_MARKER \o <<";", " ">> \o LAYOUT_MARKER

IssueValues ==
    { Issue(Str(STYLE_MARKER)), Issue(Str(LAYOUT_MARKER)), Issue(Str(BOTH_MARKERS)),
      Issue(Str(FRESH_MARKER)), Issue(Str(INTERNAL_TERM_MARKER)), Issue(Null), Issue(Absent),
      NonDictIssue }

IssueLists ==
    { NoIssues }
    \cup UNION { { IssueList(items) : items \in [1..n -> IssueValues] } : n \in 0..MaxIssues }

IssueBodies ==
    { PlainBody(kind) : kind \in {"empty", "text", "null", "list", "emptylist"} }
    \cup { RawBody("dict", "h1", "a1", "absent", issues) : issues \in IssueLists }

IssueExchanges ==
    { Exchange("none", status, NoHeaders, body) :
        status \in {200, 400, 403, 500}, body \in IssueBodies }

NotJudged ==
    [called |-> FALSE, result |-> Raised(NONE), source_gate |-> FALSE, fresh_gate |-> FALSE,
     internal_term_gate |-> FALSE]

InitIssues ==
    /\ RunIdle
    /\ PageIdle
    /\ wire \in [variant : {"headers"}, exchange : IssueExchanges]
    /\ norm = NotJudged

gates_of(response) ==
    [called |-> TRUE,
     result |-> response,
     source_gate |-> has_reference_source_gate_issue(response),
     fresh_gate |-> has_reference_gate_issue(response),
     internal_term_gate |-> has_internal_term_gate_issue(response)]

ApplyGates ==
    /\ ~norm.called
    /\ norm' = gates_of(post_export(wire.variant, wire.exchange))
    /\ UNCHANGED <<wire, runVars, pageVars>>

NextIssues == ApplyGates

SpecIssues == InitIssues /\ [][NextIssues]_vars

(***************************************************************************)
(* The artifact store src/generated/jobs/<request hash>/{layout.json,      *)
(* export-audit.json}.  A file is its bytes; what json.loads makes of the  *)
(* bytes of a layout.json is looked up in LayoutCatalog.                   *)
(***************************************************************************)
HashKeys == {"h1", "h2"}

File(exists, bytes) == [exists |-> exists, bytes |-> bytes]
NoFile == File(FALSE, "")
Files(layout, audit) == [layout |-> layout, audit |-> audit]
NoFiles == Files(NoFile, NoFile)
EmptyStore == [k \in HashKeys |-> NoFiles]

\* JOB_ROOT / request_hash / "layout.json", ... / "export-audit.json"
job_files(store, request_hash) ==
    IF request_hash \in DOMAIN store THEN store[request_hash] ELSE NoFiles

\* hashlib.sha256(path.read_bytes()).hexdigest(), None for a missing file;
\* distinct bytes have distinct digests
sha256_file(file) == IF ~file.exists THEN NONE ELSE "sha256:" \o file.bytes

TitleElement == Element("text", Str(TITLE), Str(<<"a", "b">>), "absent")
BodyElement == Element("text", Str(BODY), Str(<<"c", "d">>), "absent")
GoodPage == Page("list", <<TitleElement, BodyElement>>)
BadPage == Page("list", <<TitleElement>>)

Repeat(c, n) == [i \in 1..n |-> c]

BodyBlock(chars, font) ==
    DensityElement("text", Str(BODY), Absent, Str(Repeat("a", chars)), "absent", Num(font))

\* a page of equal body blocks
DensityPage(chars, blocks, font) == Page("list", [i \in 1..blocks |-> BodyBlock(chars, font)])

\* four 16 pt body blocks after a small-print header, a small-print debug
\* note, a blank block, an image and a 9 pt caption
MixedPage ==
    Page("list",
         << DensityElement("text", Str(BODY), Str(HEADER), Str(Repeat("h", 30)), "absent", Num(8000)),
            DensityElement("text", Str(BODY), Absent, Str(Repeat("d", 30)), "true", Num(8000)),
            DensityElement("text", Str(BODY), Absent, Str(<<" ", "\t", " ">>), "absent", Num(8000)),
            DensityElement("image", Str(BODY), Absent, Absent, "absent", Num(8000)),
            DensityElement("text", Str(<<"c", "a", "p", "t", "i", "o", "n">>), Null,
                           Str(Repeat("c", 10)), "false", Num(9000)) >>
         \o [i \in 1..4 |-> BodyBlock(55, 16000)])

\* four body blocks of 55 characters each, two of them a run of blanks
PaddedPage ==
    Page("list",
         [i \in 1..4 |->
             DensityElement("text", Str(<<"T", "a", "b", "l", "e", "-", "1">>), Absent,
                            Str(Repeat("a", 27) \o <<" ", " ">> \o Repeat("a", 26)),
                            "absent", Num(16000))])

\* an A4 page with a text block of the given length and an image
BrochurePage(chars, issues) ==
    LayoutPage(Num(210), Num(297), Absent, Absent, issues,
               << LayoutElement("text", Str(BODY), Absent, Str(Repeat("a", chars)), "absent",
                                Num(100), Num(80), Absent),
                  LayoutElement("image", Absent, Absent, Absent, "absent",
                                Num(100), Num(60), Absent) >>)

\* a page with one text element
TextPage(text, debugOnly) == Page("list", <<Element("text", Str(BODY), Str(text), debugOnly)>>)

LayoutDoc(isdict, requestHash, tag, items) ==
    [isdict |-> isdict, requestHash |-> requestHash, pages |-> [tag |-> tag, items |-> items]]

\* layout.json bytes that parse, and what they parse to
CatalogBytes ==
    {"json-list", "params-h1", "params-h1-rewritten", "params-h2", "no-params",
     "pages-absent", "pages-empty", "pages-good", "pages-good-bad",
     "pages-nondict", "dense-poster", "dense-onepager", "dense-thin", "dense-fine",
     "dense-mixed", "dense-padded",
     "brochure-4", "brochure-3", "brochure-4-thin", "brochure-4-issue",
     "brochure-5-two-thin", "brochure-4-nondict",
     "terms-leak", "terms-near", "terms-debug"}

LayoutCatalog ==
    [bytes \in CatalogBytes |->
        CASE bytes = "json-list" -> LayoutDoc(FALSE, NONE, "absent", <<>>)
          [] bytes = "params-h1" -> LayoutDoc(TRUE, "h1", "list", <<GoodPage>>)
          [] bytes = "params-h1-rewritten" -> LayoutDoc(TRUE, "h1", "list", <<GoodPage, GoodPage>>)
          [] bytes = "params-h2" -> LayoutDoc(TRUE, "h2", "list", <<GoodPage>>)
          [] bytes = "no-params" -> LayoutDoc(TRUE, NONE, "list", <<GoodPage>>)
          [] bytes = "pages-absent" -> LayoutDoc(TRUE, NONE, "absent", <<>>)
          [] bytes = "pages-empty" -> LayoutDoc(TRUE, NONE, "list", <<>>)
          [] bytes = "pages-good" -> LayoutDoc(TRUE, NONE, "list", <<GoodPage>>)
          [] bytes = "pages-good-bad" -> LayoutDoc(TRUE, NONE, "list", <<GoodPage, BadPage>>)
          [] bytes = "pages-nondict" -> LayoutDoc(TRUE, NONE, "list", <<NonDictPage>>)
          [] bytes = "dense-poster" ->
                LayoutDoc(TRUE, NONE, "list", <<DensityPage(55, 4, 16000)>>)
          [] bytes = "dense-onepager" ->
                LayoutDoc(TRUE, NONE, "list", <<DensityPage(45, 4, 12000)>>)
          [] bytes = "dense-thin" ->
                LayoutDoc(TRUE, NONE, "list",
                          <<DensityPage(55, 4, 16000), DensityPage(45, 3, 12000)>>)
          [] bytes = "dense-fine" ->
                LayoutDoc(TRUE, NONE, "list", <<DensityPage(55, 4, 15996)>>)
          [] bytes = "dense-mixed" -> LayoutDoc(TRUE, NONE, "list", <<MixedPage>>)
          [] bytes = "dense-padded" -> LayoutDoc(TRUE, NONE, "list", <<PaddedPage>>)
          [] bytes = "brochure-4" ->
                LayoutDoc(TRUE, NONE, "list", [i \in 1..4 |-> BrochurePage(58, <<>>)])
          [] bytes = "brochure-3" ->
                LayoutDoc(TRUE, NONE, "list", [i \in 1..3 |-> BrochurePage(58, <<>>)])
          [] bytes = "brochure-4-thin" ->
                LayoutDoc(TRUE, NONE, "list",
                          [i \in 1..4 |-> BrochurePage(IF i = 3 THEN 57 ELSE 58, <<>>)])
          [] bytes = "brochure-4-issue" ->
                LayoutDoc(TRUE, NONE, "list",
                          [i \in 1..4 |->
                              BrochurePage(58, IF i = 2 THEN <<"content-density">> ELSE <<>>)])
          [] bytes = "brochure-5-two-thin" ->
                LayoutDoc(TRUE, NONE, "list",
                          [i \in 1..5 |->
                              BrochurePage(IF i \in {1, 4} THEN 57 ELSE 58,
                                           IF i = 4 THEN <<"content-density">> ELSE <<>>)])
          [] bytes = "brochure-4-nondict" ->
                LayoutDoc(TRUE, NONE, "list",
                          [i \in 1..4 |-> IF i = 2 THEN NonDictPage ELSE BrochurePage(58, <<>>)])
          [] bytes = "terms-leak" ->
                LayoutDoc(TRUE, NONE, "list",
                          <<GoodPage,
                            TextPage(<<"o", "u", "r", " ", "L", "a", "y", "o", "u", "t", " ", "p", "l", "a", "n">>, "absent")>>)
          [] bytes = "terms-near" ->
                LayoutDoc(TRUE, NONE, "list",
                          <<TextPage(<<"t", "w", "o", " ", "l", "a", "y", "o", "u", "t", "s">>, "absent")>>)
          [] bytes = "terms-debug" ->
                LayoutDoc(TRUE, NONE, "list",
                          <<TextPage(<<"l", "a", "y", "o", "u", "t">>, "true")>>)]

NoLayout == LayoutDoc(FALSE, NONE, "absent", <<>>)

\* json.loads(layout_path.read_text()): ok is FALSE for JSONDecodeError
json_loads_layout(bytes) ==
    IF bytes \in CatalogBytes
    THEN [ok |-> TRUE, doc |-> LayoutCatalog[bytes]]
    ELSE [ok |-> FALSE, doc |-> NoLayout]

NotLoaded == [found |-> FALSE, doc |-> NoLayout]

\* lines 71-76 of load_layout, for a file that exists
loaded(parsed) == IF ~parsed.ok THEN NotLoaded ELSE [found |-> TRUE, doc |-> parsed.doc]

\* lines 69-76 for the file at layout_path
load_layout_file(file) ==
    IF ~file.exists THEN NotLoaded ELSE loaded(json_loads_layout(file.bytes))

\* load_layout(request_hash), called only when request_hash is a str: None
\* (found FALSE) for a missing file and for bytes that are not JSON
load_layout(store, request_hash) ==
    IF request_hash = NONE THEN NotLoaded
    ELSE load_layout_file(job_files(store, request_hash).layout)

(***************************************************************************)
(* The service, seen from the harness: what an export may answer and what  *)
(* a request may do to the artifact store, per entry point.                *)
(***************************************************************************)
Entries ==
    {"determinism", "job_isolation", "export_gate", "reference_gate", "reference_index",
     "runtime_gate", "content_completeness", "copy_density", "layout_density",
     "no_internal_terms", "no_domain_copy"}

\* the entry points whose main() begins with ensure_test_images()
EntriesWithImages ==
    {"determinism", "job_isolation", "reference_gate", "content_completeness", "copy_density",
     "layout_density", "no_internal_terms"}

\* urlopen() of the regeneration trigger: returns, or raises
TriggerOutcomes == {"ok", "URLError", "TimeoutError", "HTTPError"}

EnvExchanges(e) ==
    CASE e = "determinism" ->
            SuccessExchanges
            \cup { Exchange("none", 400, NoHeaders, body) :
                     body \in { PlainBody("text"), PlainBody("list"),
                                RawBody("dict", "h1", "a1", "absent", NoIssues),
                                RawBody("dict", "h1", "a1", "null", NoIssues) } }
            \cup { Exchange("none", 500, NoHeaders, PlainBody("empty")), Fault("refused") }
      [] e = "job_isolation" ->
            { Exchange("none", 200, Headers(rh, "a1", NONE, NONE), PlainBody("empty")) :
                rh \in {NONE, "h1", "h2"} }
            \cup { Exchange("none", 400, NoHeaders, body) :
                     body \in { PlainBody("text"), PlainBody("list"),
                                RawBody("dict", "h1", "a1", "absent", NoIssues) } }
            \cup { Fault("timeout") }
      [] e = "export_gate" ->
            { Exchange("none", status, NoHeaders, PlainBody("text")) : status \in {200, 400, 500} }
            \cup { Fault("refused") }
      [] e = "content_completeness" ->
            { Exchange("none", 200, Headers(rh, "a1", completeness, internal_terms),
                       PlainBody("empty")) :
                rh \in {NONE, "h1"}, completeness \in {NONE, "pass", "fail"},
                internal_terms \in {NONE, "pass"} }
            \cup { Exchange("none", 400, NoHeaders, body) :
                     body \in { PlainBody("text"), RawBody("dict", "h1", "a1", "absent", NoIssues) } }
            \cup { Fault("refused") }
      [] e = "reference_gate" ->
            { Exchange("none", 200, Headers("h1", "a1", NONE, NONE), PlainBody("empty")),
              Exchange("none", 400, NoHeaders, PlainBody("list")),
              Fault("refused") }
            \cup { Exchange("none", 400, NoHeaders,
                            RawBody("dict", "h1", "a1", "absent", IssueList(items))) :
                     items \in { <<>>,
                                 <<Issue(Str(STYLE_MARKER)), Issue(Str(LAYOUT_MARKER))>>,
                                 <<Issue(Str(STYLE_MARKER)), NonDictIssue>> } }
      [] e = "reference_index" ->
            { Exchange("none", 200, Headers("h1", "a1", NONE, NONE), PlainBody("empty")),
              Exchange("none", 400, NoHeaders, PlainBody("list")),
              Exchange("none", 400, NoHeaders,
                       RawBody("dict", "h1", "a1", "absent", IssueList(<<Issue(Str(FRESH_MARKER))>>))),
              Exchange("none", 400, NoHeaders, RawBody("dict", "h1", "a1", "absent", NoIssues)),
              Fault("timeout") }
      [] e = "no_internal_terms" ->
            { Exchange("none", 200, Headers(rh, "a1", NONE, NONE), PlainBody("empty")) :
                rh \in {NONE, "h1"} }
            \cup { Exchange("none", status, NoHeaders,
                            RawBody("dict", "h1", "a1", "absent", issues)) :
                     status \in {400, 422},
                     issues \in { NoIssues, IssueList(<<Issue(Str(INTERNAL_TERM_MARKER))>>) } }
            \cup { Exchange("none", 500, NoHeaders, PlainBody("text")), Fault("refused") }
      [] e = "copy_density" ->
            { Exchange("none", 200, Headers(rh, "a1", NONE, NONE), PlainBody("empty")) :
                rh \in {NONE, "h1"} }
            \cup { Exchange("none", 400, NoHeaders, RawBody("dict", "h1", "a1", "absent", NoIssues)),
                   Fault("timeout") }

\* the file sets a request may leave under one key
EnvFiles(e, key) ==
    CASE e = "job_isolation" ->
            { NoFiles,
              Files(File(TRUE, "params-" \o key), File(TRUE, "audit-1")),
              Files(File(TRUE, "params-h1-rewritten"), File(TRUE, "audit-1")),
              Files(File(TRUE, "params-" \o key), File(TRUE, "audit-2")),
              Files(File(TRUE, "params-" \o key), NoFile),
              Files(File(TRUE, "not-json"), File(TRUE, "audit-1")),
              Files(File(TRUE, "json-list"), File(TRUE, "audit-1")) }
      [] e = "content_completeness" ->
            { Files(File(TRUE, bytes), NoFile) :
                bytes \in {"not-json", "json-list", "pages-absent", "pages-empty",
                           "pages-good", "pages-good-bad", "pages-nondict"} }
            \cup { NoFiles }
      [] e = "copy_density" ->
            { Files(File(TRUE, bytes), NoFile) :
                bytes \in {"not-json", "pages-absent", "dense-poster", "dense-onepager",
                           "dense-thin", "dense-fine", "dense-mixed", "dense-padded"} }
      [] e = "no_internal_terms" ->
            { Files(File(TRUE, bytes), NoFile) :
                bytes \in {"not-json", "json-list", "pages-absent", "pages-good", "pages-nondict",
                           "terms-leak", "terms-near", "terms-debug"} }
      [] e = "layout_density" ->
            { Files(File(TRUE, bytes), NoFile) :
                bytes \in {"not-json", "json-list", "pages-absent", "brochure-4", "brochure-3",
                           "brochure-4-thin", "brochure-4-issue", "brochure-5-two-thin",
                           "brochure-4-nondict"} }
      [] OTHER -> {}

EnvKeys(e) ==
    CASE e = "job_isolation" -> HashKeys
      [] e \in {"content_completeness", "copy_density", "no_internal_terms"} -> {"h1"}
      [] e = "layout_density" -> HashKeys
      [] OTHER -> {}

\* the stores a request may leave behind: nothing written, or the files
\* under one key replaced
EnvWrites(e, store) ==
    {store}
    \cup UNION { { [store EXCEPT ![key] = files] : files \in EnvFiles(e, key) } :
                  key \in EnvKeys(e) }

(***************************************************************************)
(* Spec: one run of one entry point.                                       *)
(***************************************************************************)
\* bound: image files under references/
ReferenceImages == 1

CopyCap(e) == IF e \in {"copy_density", "layout_density"} THEN 10 ELSE 8

\* Path("images"), and TMP_DIR of runtime_gate_proof
images_dir == "images"

TMP_DIR_InJobRoot ==
    "src/generated/jobs"

TMP_DIR ==
    "tmp"

\* f"qa-{index:03d}{suffix}" and its variants; the suffix is the source's,
\* always one of IMAGE_EXTS
target_prefix(e) ==
    CASE e = "copy_density" -> "qa-copy-"
      [] e = "layout_density" -> "qa-density-"
      [] OTHER -> "qa-"

target(e, index) == <<images_dir, target_prefix(e), index>>

\* the files ensure_test_images() writes when images/ holds the image files
\* `existing` and references/ holds `references` image files
images_written_Always(e, existing, references) ==
    { target(e, index) : index \in 1..Min(references, CopyCap(e)) }

images_written(e, existing, references) ==
    IF existing # {} THEN {}
    ELSE { target(e, index) : index \in 1..Min(references, CopyCap(e)) }

\* ensure_test_images(): the image files of images/ when it returns, and
\* the number it returns
ensure_test_images(e, existing, references) ==
    LET written == images_written(e, existing, references)
        created == existing \cup written
    IN  [found |-> existing, written |-> written, created |-> created,
         returned |-> IF existing # {} THEN Cardinality(existing) ELSE Cardinality(created)]

\* images/ as a run may find it: empty, or holding an image put there by hand
InitImages == { {}, {<<images_dir, "photo-", 1>>} }

(* Calls of ensure_test_images() one after the other, by any entry points *)
MaxReferences == 11

MaxCalls == 3

InitFixture ==
    /\ PageIdle
    /\ ExportIdle
    /\ entry = NONE
    /\ pc = "idle"
    /\ images \in InitImages
    /\ jobs = NONE
    /\ mtime = NONE
    /\ caseNo = 0
    /\ responses = <<>>
    /\ locals = NONE
    /\ results = <<>>
    /\ report = <<>>
    /\ exitCode = Running
    /\ uncaught = NONE
    /\ log = <<>>
    /\ snap = NONE

\* one call, by entry point e, with `references` image files under
\* references/; the history keeps what the call found, wrote and returned
CallEnsureTestImages ==
    /\ Len(log) < MaxCalls
    /\ \E e \in EntriesWithImages, references \in 0..MaxReferences :
          LET call == ensure_test_images(e, images, references)
          IN  /\ images' = call.created
              /\ log' = Append(log, [caller |-> e, found |-> call.found,
                                      written |-> call.written,
                                      returned |-> call.returned])
    /\ UNCHANGED <<otherVars, entry, pc, jobs, mtime, caseNo, responses, locals, results,
                   report, exitCode, uncaught, snap>>

NextFixture == CallEnsureTestImages

SpecFixture == InitFixture /\ [][NextFixture]_vars

Event(op, case, key) == [op |-> op, case |-> case, key |-> key]

NoLocals ==
    [layout_a_before |-> NONE, audit_a_before |-> NONE, request_hash |-> NONE,
     initial_index |-> NONE, before_mtime |-> 0]

\* the artifact store a run may find: empty, or with a layout an earlier run
\* of the layout-density check left behind
InitStores(e) ==
    IF e = "layout_density"
    THEN { EmptyStore,
           [EmptyStore EXCEPT !["h1"] = Files(File(TRUE, "brochure-4"), NoFile)] }
    ELSE { EmptyStore }

Report(has_passed, passed, flags) ==
    [has_passed |-> has_passed, passed |-> passed, flags |-> flags]

NoFlags == [none |-> TRUE]

\* the step after ensure_test_images(), or the first step of a main() that
\* does not call it
FirstStep(e) ==
    CASE e = "determinism" -> "trigger"
      [] e = "job_isolation" -> "trigger_a"
      [] e = "export_gate" -> "normal"
      [] e = "content_completeness" -> "case_trigger"
      [] e = "copy_density" -> "case_export"
      [] e = "layout_density" -> "latest_before"
      [] e = "reference_gate" -> "trigger"
      [] e = "reference_index" -> "trigger"
      [] e = "no_internal_terms" -> "trigger"
      [] e = "runtime_gate" -> "inspect"
      [] e = "no_domain_copy" -> "scan"

Init ==
    /\ PageIdle
    /\ ExportIdle
    /\ entry \in Entries
    /\ pc = IF entry \in EntriesWithImages THEN "start" ELSE FirstStep(entry)
    /\ images \in InitImages
    /\ jobs \in InitStores(entry)
    /\ mtime = [k \in HashKeys |-> IF jobs[k].layout.exists THEN 1 ELSE 0]
    /\ caseNo = 1
    /\ responses = <<>>
    /\ locals = NoLocals
    /\ results = <<>>
    /\ report = <<>>
    /\ exitCode = Running
    /\ uncaught = NONE
    /\ log = <<>>
    /\ snap = NoFiles

\* an exception nobody catches: the interpreter prints a traceback to
\* standard error and exits with status 1; nothing is printed to stdout
Crash(exception, event) ==
    /\ pc' = "crashed"
    /\ uncaught' = exception
    /\ exitCode' = 1
    /\ log' = Append(log, event)
    /\ UNCHANGED <<otherVars, mtime, entry, images, jobs, caseNo, responses, locals, results, report, snap>>

EnsureTestImages ==
    /\ pc = "start"
    /\ \E references \in 0..ReferenceImages :
          LET call == ensure_test_images(entry, images, references)
          IN  /\ images' = call.created
              /\ log' = IF call.written = {} THEN log
                        ELSE Append(log, Event("copy", caseNo, images_dir))
    /\ pc' = FirstStep(entry)
    /\ UNCHANGED <<otherVars, mtime, entry, jobs, caseNo, responses, locals, results, report, exitCode,
                   uncaught, snap>>

\* trigger_regenerate(params), called outside any try
TriggerStep(to) ==
    \E outcome \in TriggerOutcomes :
        IF outcome = "ok"
        THEN /\ jobs' \in EnvWrites(entry, jobs)
             /\ log' = Append(log, Event("trigger", caseNo, NONE))
             /\ pc' = to
             /\ UNCHANGED <<otherVars, mtime, entry, images, caseNo, responses, locals, results, report,
                            exitCode, uncaught, snap>>
        ELSE Crash(outcome, Event("trigger_fault", caseNo, outcome))

\* the request hash a caller takes from a post_export result
returned_hash(variant, r) ==
    IF variant = "headers"
    THEN IF r.status = 200 THEN r.headers.request_hash
         ELSE IF IsDict(r.body) THEN r.body.requestHash ELSE NONE
    ELSE r.request_hash

(* The form fields of each export request *)
\* the page geometry every payload literal ends with
A4P == [pageSizePreset |-> "A4P", pageWidthMm |-> "210", pageHeightMm |-> "297"]

\* determinism_proof.qa_payload (71-85) and job_isolation_proof.qa_payload
\* (76-90): the same literal but for title, job and seed
qa_payload(title, job_id, seed) ==
    [jobId |-> job_id, docKind |-> "brochure", pageCount |-> "exact(2)", title |-> title,
     language |-> "ko", tone |-> "concise",
     constraints |-> "no-fabricated-numbers,bullet-centric-copy",
     variantIndex |-> "1", seed |-> seed] @@ A4P

\* export_gate_proof.main 31-47 and reference_index_proof.main 96-115: no
\* jobId and no seed
proposal_payload(preset, width, height) ==
    [variantIndex |-> "1", docType |-> "proposal", pageSizePreset |-> preset,
     pageWidthMm |-> width, pageHeightMm |-> height]

\* reference_gate_proof.export_payload
export_payload(disable_reference_usage) ==
    LET payload == [jobId |-> "qa-reference-gate", docKind |-> "brochure",
                    pageCount |-> "exact(2)", title |-> "QA_Reference_Gates",
                    language |-> "ko", tone |-> "concise", variantIndex |-> "1",
                    seed |-> "99991"] @@ A4P
    IN  IF disable_reference_usage THEN [qaDisableReferenceUsage |-> "1"] @@ payload
        ELSE payload

\* content_completeness_proof.main 184-211: only the first case sets docKind
\* and pageCount
CompletenessCases ==
    <<[name |-> "empty-content", job_id |-> "qa-complete-empty", title |-> "QA_Content_Empty",
       prompt |-> "", docKind |-> "poster", pageCount |-> "exact(1)", variant |-> "1",
       seed |-> "33001"],
      [name |-> "poster-two-pages", job_id |-> "qa-complete-poster2",
       title |-> "QA_Content_Poster2", prompt |-> "<poster, 2 pages>", variant |-> "1",
       seed |-> "33002"],
      [name |-> "friend-intro", job_id |-> "qa-complete-friend",
       title |-> "QA_Content_Friend", prompt |-> "<poster introducing a friend>",
       variant |-> "1", seed |-> "33003"]>>

\* case.get(key): None for a missing key
case_get(case, key) == IF key \in DOMAIN case THEN case[key] ELSE NONE

\* content_completeness_proof.run_case 124-139
completeness_payload(case) ==
    LET payload == [jobId |-> case.job_id, title |-> case.title, prompt |-> case.prompt,
                    variantIndex |-> case.variant, seed |-> case.seed, language |-> "ko",
                    tone |-> "concise"] @@ A4P
        kind == IF case_get(case, "docKind") \notin {NONE, ""}
                THEN [docKind |-> case.docKind] @@ payload ELSE payload
    IN  IF case_get(case, "pageCount") \notin {NONE, ""}
        THEN [pageCount |-> case.pageCount] @@ kind ELSE kind

\* copy_density_proof.main 210-239, without the thresholds
CopyCases ==
    <<[name |-> "poster_set_3p", job_id |-> "qa-copy-density-poster-set",
       doc_kind |-> "poster_set", page_count |-> "exact(3)",
       title |-> "QA_CopyDensity_PosterSet", prompt |-> "<poster, 3 pages, in detail>",
       seed |-> "561001"],
      [name |-> "onepager_1p", job_id |-> "qa-copy-density-onepager",
       doc_kind |-> "onepager", page_count |-> "exact(1)",
       title |-> "QA_CopyDensity_Onepager", prompt |-> "<one-pager, in full>",
       seed |-> "561002"]>>

\* copy_density_proof.run_case 120-134
copy_payload(case) ==
    [jobId |-> case.job_id, docKind |-> case.doc_kind, pageCount |-> case.page_count,
     title |-> case.title, prompt |-> case.prompt, copywriterMode |-> "local",
     variantIndex |-> "1", seed |-> case.seed, language |-> "ko", tone |-> "concise"] @@ A4P

\* no_internal_terms_proof.main 152 and 166-181
INTERNAL_TERMS_PROMPT ==
    "RequestSpec variantIndex referenceDigest layout validation theme-factory webapp-testing"

internal_terms_payload ==
    [jobId |-> "qa-no-internal-terms", title |-> "QA_No_Internal_Terms",
     docKind |-> "brochure", pageCount |-> "exact(2)", prompt |-> INTERNAL_TERMS_PROMPT,
     variantIndex |-> "1", seed |-> "147258", language |-> "ko", tone |-> "concise"] @@ A4P

\* the payload the export call at `at` of entry point e sends
payload_sent(e, at, case) ==
    CASE e = "determinism" -> qa_payload("QA_Determinism", "qa-determinism-1", "424242")
      [] e = "job_isolation" ->
            IF at = "export_a" THEN qa_payload("QA_Job_Isolation", "qa-job-a", "11111")
            ELSE qa_payload("QA_Job_Isolation", "qa-job-b", "22222")
      [] e = "export_gate" ->
            IF at = "normal" THEN proposal_payload("A4P", "210", "297")
            ELSE proposal_payload("CUSTOM", "80", "80")
      [] e = "reference_gate" -> export_payload(at # "export_allowed")
      [] e = "reference_index" -> proposal_payload("A4P", "210", "297")
      [] e = "content_completeness" -> completeness_payload(CompletenessCases[case])
      [] e = "copy_density" -> copy_payload(CopyCases[case])
      [] OTHER -> internal_terms_payload

\* an export call in the history, with the payload it sent
Sent(op, case, key, payload) == [op |-> op, case |-> case, key |-> key, payload |-> payload]

\* post_export(payload) / post_form(payload), called outside any try; with
\* keep, the files found under the returned hash are remembered in snap
ExportStep(variant, to, keep) ==
    \E x \in EnvExchanges(entry) :
        LET r == post_export(variant, x)
        IN  IF r.raised # NONE
            THEN Crash(r.raised,
                       Sent(IF x.fault # "none" THEN "export_fault" ELSE "export_raise",
                            caseNo, r.raised, payload_sent(entry, pc, caseNo)))
            ELSE /\ responses' = Append(responses, r)
                 /\ jobs' \in EnvWrites(entry, jobs)
                 /\ snap' = IF keep THEN job_files(jobs', returned_hash(variant, r)) ELSE snap
                 /\ log' = Append(log, Sent("export", caseNo, returned_hash(variant, r),
                                            payload_sent(entry, pc, caseNo)))
                 /\ pc' = to
                 /\ UNCHANGED <<otherVars, mtime, entry, images, caseNo, locals, results, report, exitCode,
                                uncaught>>

\* print(json.dumps(output)) and the end of main(): sys.exit(1) when told so
PrintAndExit(output, status) ==
    /\ report' = Append(report, output)
    /\ exitCode' = status
    /\ pc' = "done"
    /\ UNCHANGED <<otherVars, mtime, entry, images, jobs, caseNo, responses, locals, results, uncaught,
                   log, snap>>

(* determinism_proof.main *)
DetTrigger == entry = "determinism" /\ pc = "trigger" /\ TriggerStep("export_a")

DetExportA == entry = "determinism" /\ pc = "export_a" /\ ExportStep("determinism", "export_b", FALSE)

DetExportB == entry = "determinism" /\ pc = "export_b" /\ ExportStep("determinism", "report", FALSE)

\* a is not None and a == b
SameAndNotNone(a, b) == a # NONE /\ a = b

determinism_output(run_a, run_b) ==
    LET same_request_hash == SameAndNotNone(run_a.request_hash, run_b.request_hash)
        same_audit_hash == SameAndNotNone(run_a.audit_hash, run_b.audit_hash)
    IN  [same_request_hash |-> same_request_hash,
         same_audit_hash |-> same_audit_hash,
         determinism_passed |->
             run_a.status = 200 /\ run_b.status = 200 /\ same_request_hash /\ same_audit_hash]

DetReport ==
    /\ entry = "determinism"
    /\ pc = "report"
    /\ PrintAndExit(Report(FALSE, FALSE, determinism_output(responses[1], responses[2])), 0)

(* export_gate_proof.main *)
GateNormal == entry = "export_gate" /\ pc = "normal" /\ ExportStep("post_form", "blocked", FALSE)

GateBlocked == entry = "export_gate" /\ pc = "blocked" /\ ExportStep("post_form", "report", FALSE)

GateReport ==
    /\ entry = "export_gate"
    /\ pc = "report"
    /\ PrintAndExit(Report(FALSE, FALSE,
                           [normal_status |-> responses[1].status,
                            blocked_status |-> responses[2].status]), 0)

(* job_isolation_proof.main *)
IsoTriggerA == entry = "job_isolation" /\ pc = "trigger_a" /\ TriggerStep("export_a")

IsoExportA ==
    entry = "job_isolation" /\ pc = "export_a" /\ ExportStep("isolation", "digest_before", TRUE)

\* lines 116-122: the digests of A's two files, when hash_a is a str
digests_of(store, request_hash) ==
    IF request_hash = NONE THEN [layout |-> NONE, audit |-> NONE]
    ELSE [layout |-> sha256_file(job_files(store, request_hash).layout),
          audit |-> sha256_file(job_files(store, request_hash).audit)]

IsoDigestBefore ==
    /\ entry = "job_isolation"
    /\ pc = "digest_before"
    /\ LET hash_a == responses[1].request_hash
           before == digests_of(jobs, hash_a)
       IN  /\ locals' = [locals EXCEPT !.layout_a_before = before.layout,
                                       !.audit_a_before = before.audit]
           /\ log' = Append(log, Event("digest_before", caseNo, hash_a))
    /\ caseNo' = 2
    /\ pc' = "trigger_b"
    /\ UNCHANGED <<otherVars, mtime, entry, images, jobs, responses, results, report, exitCode,
                   uncaught, snap>>

IsoTriggerB == entry = "job_isolation" /\ pc = "trigger_b" /\ TriggerStep("export_b")

IsoExportB ==
    entry = "job_isolation" /\ pc = "export_b" /\ ExportStep("isolation", "report", FALSE)

\* a variant of job_a_files_stable that compares the layout digests only
job_a_files_stable_LayoutOnly(layout_a_before, audit_a_before, layout_a_after, audit_a_after) ==
    /\ layout_a_before # NONE
    /\ audit_a_before # NONE
    /\ layout_a_before = layout_a_after

\* a variant of job_a_files_stable that takes files absent before and after
\* as unchanged
job_a_files_stable_AbsentIsStable(layout_a_before, audit_a_before, layout_a_after, audit_a_after) ==
    /\ layout_a_before = layout_a_after
    /\ audit_a_before = audit_a_after

\* line 172
job_a_files_stable(layout_a_before, audit_a_before, layout_a_after, audit_a_after) ==
    /\ layout_a_before # NONE
    /\ audit_a_before # NONE
    /\ layout_a_before = layout_a_after
    /\ audit_a_before = audit_a_after

\* lines 152-155 and 163-166 for a layout.json that was parsed
hash_matches_parsed(parsed, request_hash) ==
    IF ~parsed.ok THEN [raised |-> NONE, value |-> FALSE]
    ELSE IF ~parsed.doc.isdict THEN [raised |-> "AttributeError", value |-> FALSE]
    ELSE [raised |-> NONE, value |-> parsed.doc.requestHash = request_hash]

\* lines 150-155 and 161-166: parsed.get(...) on the layout found under
\* request_hash; raises AttributeError when the JSON is not an object
layout_hash_matches(store, request_hash) ==
    IF request_hash = NONE \/ ~job_files(store, request_hash).layout.exists
    THEN [raised |-> NONE, value |-> FALSE]
    ELSE hash_matches_parsed(json_loads_layout(job_files(store, request_hash).layout.bytes),
                             request_hash)

\* lines 168-176
isolation_flags(hash_a, hash_b, before, after, files_b, matches_a, matches_b) ==
    [hashes_different |-> hash_a # NONE /\ hash_b # NONE /\ hash_a # hash_b,
     job_a_files_stable |->
         job_a_files_stable(before.layout_a_before, before.audit_a_before,
                            after.layout, after.audit),
     job_b_files_exist |-> hash_b # NONE /\ files_b.layout.exists /\ files_b.audit.exists,
     layout_a_hash_matches |-> matches_a.value,
     layout_b_hash_matches |-> matches_b.value]

\* lines 137-176, once both layouts were inspected
IsoInspected(hash_a, hash_b, matches_a, matches_b) ==
    IF matches_a.raised # NONE
    THEN Crash(matches_a.raised, Event("inspect_raise", 1, hash_a))
    ELSE IF matches_b.raised # NONE
    THEN Crash(matches_b.raised, Event("inspect_raise", 2, hash_b))
    ELSE PrintAndExit(Report(FALSE, FALSE,
                             isolation_flags(hash_a, hash_b, locals, digests_of(jobs, hash_a),
                                             job_files(jobs, hash_b), matches_a, matches_b)),
                      0)

IsoReport ==
    /\ entry = "job_isolation"
    /\ pc = "report"
    /\ IsoInspected(responses[1].request_hash, responses[2].request_hash,
                    layout_hash_matches(jobs, responses[1].request_hash),
                    layout_hash_matches(jobs, responses[2].request_hash))

(* content_completeness_proof.run_case and main *)
CaseCount(e) == IF e = "content_completeness" THEN 3 ELSE 2

CompleteTrigger ==
    entry = "content_completeness" /\ pc = "case_trigger" /\ TriggerStep("case_export")

CompleteExport ==
    entry = "content_completeness" /\ pc = "case_export"
        /\ ExportStep("headers", "case_verify", FALSE)

RECURSIVE MapPages(_, _)
\* [check(page) for page in pages if isinstance(page, dict)], over the first n
MapPages(items, n) ==
    IF n = 0 THEN <<>>
    ELSE IF items[n].isdict
         THEN Append(MapPages(items, n - 1), page_has_minimum_content(items[n]))
         ELSE MapPages(items, n - 1)

\* lines 150-153
checks_in(layout) ==
    IF layout.found /\ layout.doc.isdict /\ layout.doc.pages.tag = "list"
    THEN MapPages(layout.doc.pages.items, Len(layout.doc.pages.items))
    ELSE <<>>

\* lines 149-153
page_checks_of(store, request_hash) == checks_in(load_layout(store, request_hash))

All(checks) == \A i \in DOMAIN checks : checks[i]

\* lines 155-169: gate_proof is a dict of three keys exactly when the status
\* is 200, and a dict of three keys is truthy
completeness_passed(response, page_checks) ==
    /\ response.status = 200 /\ Len(page_checks) > 0 /\ All(page_checks)
    /\ response.status = 200 =>
          /\ response.headers.completeness = "pass"
          /\ response.headers.internal_terms = "pass"

\* lines 171-179
completeness_record(name, response, request_hash, page_checks) ==
    [name |-> name,
     status |-> response.status,
     request_hash |-> request_hash,
     page_checks |-> page_checks,
     passed |-> completeness_passed(response, page_checks)]

\* lines 143-179
completeness_result(name, response, store) ==
    completeness_record(name, response, returned_hash("headers", response),
                        page_checks_of(store, returned_hash("headers", response)))

\* what follows the return of run_case
CaseDone(result) ==
    /\ results' = Append(results, result)
    /\ log' = log \o << Event("resolve", caseNo, result.request_hash),
                        Event("verify", caseNo, result.request_hash) >>
    /\ pc' = "case_next"
    /\ UNCHANGED <<otherVars, mtime, entry, images, jobs, caseNo, responses, locals, report,
                   exitCode, uncaught, snap>>

CompleteVerify ==
    /\ entry = "content_completeness"
    /\ pc = "case_verify"
    /\ CaseDone(completeness_result(caseNo, responses[1], jobs))

(* copy_density_proof.run_case *)
CopyExport ==
    entry = "copy_density" /\ pc = "case_export" /\ ExportStep("headers", "case_verify", FALSE)

\* cases[i]["threshold"], lines 219-223 and 233-237
CopyThreshold(case) ==
    IF case = 1
    THEN [min_chars |-> 220, min_blocks |-> 4, min_body_font_pt |-> 16]
    ELSE [min_chars |-> 180, min_blocks |-> 4, min_body_font_pt |-> 12]

\* line 148 for one more page
DensityStep(prev, d) ==
    IF prev.raised # NONE THEN prev
    ELSE IF d.raised # NONE THEN [raised |-> d.raised, items |-> prev.items]
    ELSE [raised |-> NONE, items |-> Append(prev.items, d.density)]

RECURSIVE MapDensities(_, _)
\* [collect_page_density(page) for page in pages if isinstance(page, dict)]
MapDensities(items, n) ==
    IF n = 0 THEN [raised |-> NONE, items |-> <<>>]
    ELSE IF ~items[n].isdict THEN MapDensities(items, n - 1)
    ELSE DensityStep(MapDensities(items, n - 1), collect_page_density(items[n]))

\* lines 147-148: pages is [] without a dict layout, and whatever
\* layout.get("pages") is with one; iterating None raises
densities_in(layout) ==
    IF ~(layout.found /\ layout.doc.isdict) THEN [raised |-> NONE, items |-> <<>>]
    ELSE IF layout.doc.pages.tag # "list" THEN [raised |-> "TypeError", items |-> <<>>]
    ELSE MapDensities(layout.doc.pages.items, Len(layout.doc.pages.items))

\* lines 146-148
densities_of(store, request_hash) == densities_in(load_layout(store, request_hash))

\* the body of the loop of lines 155-164: the reason appended for a page,
\* NONE when nothing is appended
failure_reason(density, threshold) ==
    IF density.text_chars < threshold.min_chars THEN "text_chars"
    ELSE IF density.text_blocks < threshold.min_blocks THEN "text_blocks"
    ELSE IF density.body_font_min_pt < 1000 * threshold.min_body_font_pt
    THEN "body_font_min_pt"
    ELSE NONE

FailureStep(prev, n, reason) ==
    IF reason = NONE THEN prev ELSE Append(prev, [page |-> n, reason |-> reason])

RECURSIVE FailuresLoop(_, _, _)
FailuresLoop(densities, threshold, n) ==
    IF n = 0 THEN <<>>
    ELSE FailureStep(FailuresLoop(densities, threshold, n - 1), n,
                     failure_reason(densities[n], threshold))

\* lines 189-204
copy_density_record(name, response, request_hash, densities, failures) ==
    [raised |-> NONE,
     name |-> name,
     status |-> response.status,
     request_hash |-> request_hash,
     densities |-> densities,
     failures |-> failures,
     passed |-> response.status = 200 /\ Len(densities) > 0 /\ Len(failures) = 0]

\* lines 148-204, once the densities are collected
copy_density_judged(name, response, request_hash, densities) ==
    IF densities.raised # NONE
    THEN [raised |-> densities.raised, request_hash |-> request_hash]
    ELSE copy_density_record(name, response, request_hash, densities.items,
                             FailuresLoop(densities.items, CopyThreshold(name),
                                          Len(densities.items)))

\* lines 136-204
copy_density_result(name, response, store) ==
    copy_density_judged(name, response, returned_hash("headers", response),
                        densities_of(store, returned_hash("headers", response)))

CopyVerified(result) ==
    IF result.raised # NONE
    THEN Crash(result.raised, Event("verify_raise", caseNo, result.request_hash))
    ELSE CaseDone(result)

CopyVerify ==
    /\ entry = "copy_density"
    /\ pc = "case_verify"
    /\ CopyVerified(copy_density_result(caseNo, responses[1], jobs))

(* layout_density_proof.latest_job and main *)
\* latest_job(): the job whose layout.json has the greatest st_mtime
latest_job(store, mt) ==
    LET candidates == { k \in DOMAIN store : store[k].layout.exists }
    IN  IF candidates = {} THEN [request_hash |-> NONE, mtime |-> 0]
        ELSE LET k == CHOOSE c \in candidates : \A d \in candidates : mt[c] >= mt[d]
             IN  [request_hash |-> k, mtime |-> mt[k]]

\* line 141: the result is bound to _before_hash, _before_mtime and not read
LdLatestBefore ==
    /\ entry = "layout_density"
    /\ pc = "latest_before"
    /\ log' = Append(log, Event("latest_before", caseNo, latest_job(jobs, mtime).request_hash))
    /\ locals' = [locals EXCEPT !.before_mtime = latest_job(jobs, mtime).mtime]
    /\ pc' = "trigger"
    /\ UNCHANGED <<otherVars, mtime, entry, images, jobs, caseNo, responses, results,
                   report, exitCode, uncaught, snap>>

Newest(mt) == CHOOSE m \in { mt[k] : k \in DOMAIN mt } : \A k \in DOMAIN mt : m >= mt[k]

\* line 157: the service writes nothing, or a layout.json under one key
LdTrigger ==
    /\ entry = "layout_density"
    /\ pc = "trigger"
    /\ \E outcome \in TriggerOutcomes :
          IF outcome = "ok"
          THEN /\ \/ UNCHANGED <<jobs, mtime>>
                  \/ \E key \in EnvKeys(entry) : \E files \in EnvFiles(entry, key) :
                        /\ jobs' = [jobs EXCEPT ![key] = files]
                        /\ mtime' = [mtime EXCEPT ![key] = Newest(mtime) + 1]
               /\ log' = Append(log, Event("trigger", caseNo, NONE))
               /\ pc' = "latest_after"
               /\ UNCHANGED <<otherVars, entry, images, caseNo, responses, locals, results,
                              report, exitCode, uncaught, snap>>
          ELSE Crash(outcome, Event("trigger_fault", caseNo, outcome))

\* lines 159-162, once latest_job() returned
LdResolved(request_hash) ==
    IF request_hash = NONE
    THEN PrintAndExit(Report(TRUE, FALSE, [reason |-> "no new layout artifact"]), 1)
    ELSE /\ locals' = [locals EXCEPT !.request_hash = request_hash]
         /\ log' = Append(log, Event("resolve", caseNo, request_hash))
         /\ pc' = "verify"
         /\ UNCHANGED <<otherVars, mtime, entry, images, jobs, caseNo, responses,
                        results, report, exitCode, uncaught, snap>>

LdResolve ==
    /\ entry = "layout_density"
    /\ pc = "latest_after"
    /\ LdResolved(latest_job(jobs, mtime).request_hash)

\* lines 180-200 for one page: the lists after the page
LayoutPageStep(prev, n, issues, density, reason) ==
    [densities |-> Append(prev.densities, density),
     failures |-> IF reason = NONE THEN prev.failures
                  ELSE Append(prev.failures, [page |-> n, reason |-> reason]),
     density_issues |-> IF \E i \in DOMAIN issues : issues[i] = "content-density"
                        THEN Append(prev.density_issues, n)
                        ELSE prev.density_issues]

RECURSIVE LayoutPagesLoop(_, _)
\* the loop of lines 176-200 over the first n pages
LayoutPagesLoop(items, n) ==
    IF n = 0 THEN [densities |-> <<>>, failures |-> <<>>, density_issues |-> <<>>]
    ELSE IF ~items[n].isdict THEN LayoutPagesLoop(items, n - 1)
    ELSE LayoutPageStep(LayoutPagesLoop(items, n - 1), n, items[n].issues,
                        page_density(items[n]), validate_page(page_density(items[n])))

\* a variant of layout_density_passed that does not look at the reported issues
layout_density_passed_IgnoresIssues(loop) ==
    /\ Len(loop.failures) = 0
    /\ Len(loop.densities) >= 4

\* line 202
layout_density_passed(loop) ==
    /\ Len(loop.failures) = 0
    /\ Len(loop.density_issues) = 0
    /\ Len(loop.densities) >= 4

\* lines 202-214: the verdict and the lists that are printed with it
layout_density_output(loop) ==
    [raised |-> NONE,
     passed |-> layout_density_passed(loop),
     page_count |-> Len(loop.densities),
     density_issues |-> loop.density_issues,
     failures |-> loop.failures]

\* lines 170-202 for a parsed layout; iterating a "pages" that is null raises
layout_density_verdict(doc) ==
    IF ~doc.isdict \/ doc.pages.tag = "absent"
    THEN layout_density_output(LayoutPagesLoop(<<>>, 0))
    ELSE IF doc.pages.tag = "null"
    THEN [raised |-> "TypeError"]
    ELSE layout_density_output(LayoutPagesLoop(doc.pages.items, Len(doc.pages.items)))

\* line 169: json.loads is not guarded
layout_density_parsed(parsed) ==
    IF ~parsed.ok THEN [raised |-> "JSONDecodeError"]
    ELSE layout_density_verdict(parsed.doc)

layout_density_result(store, request_hash) ==
    layout_density_parsed(json_loads_layout(job_files(store, request_hash).layout.bytes))

\* lines 169-202, once the result is known
LdVerified(result) ==
    IF result.raised # NONE
    THEN Crash(result.raised, Event("verify_raise", caseNo, locals.request_hash))
    ELSE /\ results' = Append(results, result)
         /\ log' = Append(log, Event("verify", caseNo, locals.request_hash))
         /\ pc' = "report"
         /\ UNCHANGED <<otherVars, mtime, entry, images, jobs, caseNo, responses,
                        locals, report, exitCode, uncaught, snap>>

\* lines 164-202
LdVerify ==
    /\ entry = "layout_density"
    /\ pc = "verify"
    /\ IF ~job_files(jobs, locals.request_hash).layout.exists
       THEN PrintAndExit(Report(TRUE, FALSE, [reason |-> "layout artifact missing"]), 1)
       ELSE LdVerified(layout_density_result(jobs, locals.request_hash))

\* lines 204-221
LdReport ==
    /\ entry = "layout_density"
    /\ pc = "report"
    /\ PrintAndExit(Report(TRUE, results[1].passed, NoFlags),
                    IF results[1].passed THEN 0 ELSE 1)

(* reference_gate_proof.main *)
RgTrigger == entry = "reference_gate" /\ pc = "trigger" /\ TriggerStep("export_blocked")

RgExportBlocked ==
    entry = "reference_gate" /\ pc = "export_blocked"
        /\ ExportStep("headers", "export_allowed", FALSE)

RgExportAllowed ==
    entry = "reference_gate" /\ pc = "export_allowed" /\ ExportStep("headers", "report", FALSE)

\* lines 121-129: no `passed`, no exit status
RgReport ==
    /\ entry = "reference_gate"
    /\ pc = "report"
    /\ PrintAndExit(Report(FALSE, FALSE,
                           [blocked_status |-> responses[1].status,
                            blocked_by_reference_source_gate |->
                                has_reference_source_gate_issue(responses[1]),
                            allowed_status |-> responses[2].status]), 0)

(* reference_index_proof.main *)
\* src/generated/reference-index.json as read_reference_index() may find it:
\* the service rewrites it, the harness only reads it
IndexValues == {"missing", "not-json", "dict", "list"}

\* read_reference_index(): None for a missing file and for bytes that are
\* not JSON
read_reference_index(index) == IF index \in {"missing", "not-json"} THEN NONE ELSE index

\* (value or {}).get(key) raises AttributeError on a non-empty list
or_empty_get_raises(value) == value = "list"

RiTrigger ==
    /\ entry = "reference_index"
    /\ pc \in {"trigger", "trigger_2"}
    /\ TriggerStep(IF pc = "trigger" THEN "read_index" ELSE "export_rebuilt")

\* line 93
RiReadIndex ==
    /\ entry = "reference_index"
    /\ pc = "read_index"
    /\ \E index \in IndexValues :
          locals' = [locals EXCEPT !.initial_index = read_reference_index(index)]
    /\ pc' = "touch"
    /\ UNCHANGED <<otherVars, mtime, entry, images, jobs, caseNo, responses, results, report,
                   exitCode, uncaught, log, snap>>

\* touch_one_reference(): os.utime on the first image under references/,
\* None when there is none
touch_one_reference(references) == IF references = 0 THEN NONE ELSE "references[0]"

RiTouch ==
    /\ entry = "reference_index"
    /\ pc = "touch"
    /\ \E references \in 0..ReferenceImages :
          log' = Append(log, Event("touch", caseNo, touch_one_reference(references)))
    /\ pc' = "export_stale"
    /\ UNCHANGED <<otherVars, mtime, entry, images, jobs, caseNo, responses, locals, results,
                   report, exitCode, uncaught, snap>>

RiExportStale ==
    entry = "reference_index" /\ pc = "export_stale" /\ ExportStep("headers", "trigger_2", FALSE)

RiExportRebuilt ==
    entry = "reference_index" /\ pc = "export_rebuilt" /\ ExportStep("headers", "report", FALSE)

\* lines 118-128: no `passed`, no exit status
reference_index_output(initial_index, stale_export, rebuilt_export) ==
    [reference_index_exists |-> initial_index # NONE,
     stale_export_status |-> stale_export.status,
     stale_blocked_by_reference_gate |-> has_reference_gate_issue(stale_export),
     rebuild_export_status |-> rebuilt_export.status,
     rebuild_unblocked |-> rebuilt_export.status = 200]

\* lines 116-130
RiReport ==
    /\ entry = "reference_index"
    /\ pc = "report"
    /\ \E rebuilt_index \in IndexValues :
          IF \/ or_empty_get_raises(locals.initial_index)
             \/ or_empty_get_raises(read_reference_index(rebuilt_index))
             \/ OrEmptyGetRaises(responses[1].body)
          THEN Crash("AttributeError", Event("report_raise", caseNo, NONE))
          ELSE PrintAndExit(Report(FALSE, FALSE,
                                   reference_index_output(locals.initial_index, responses[1],
                                                          responses[2])), 0)

(* runtime_gate_proof.inspect and main *)
InspectOutcomes == {"ok", "PlaywrightError"}

\* inspect(url, screenshot_name): the page is loaded in a browser and a
\* screenshot written under tmp/; any Playwright failure propagates
RtInspect ==
    /\ entry = "runtime_gate"
    /\ pc = "inspect"
    /\ \E outcome \in InspectOutcomes :
          IF outcome = "ok"
          THEN /\ \E disabled \in BOOLEAN :
                     responses' = Append(responses, [export_button_disabled |-> disabled])
               /\ log' = Append(log, Event("screenshot", Len(responses) + 1, TMP_DIR))
               /\ pc' = IF Len(responses) = 2 THEN "report" ELSE "inspect"
               /\ UNCHANGED <<otherVars, mtime, entry, images, jobs, caseNo, locals, results,
                              report, exitCode, uncaught, snap>>
          ELSE Crash(outcome, Event("inspect_raise", Len(responses) + 1, NONE))

\* line 74: no `passed`, no exit status
RtReport ==
    /\ entry = "runtime_gate"
    /\ pc = "report"
    /\ PrintAndExit(Report(FALSE, FALSE,
                           [release |-> responses[1], debug |-> responses[2],
                            tiny_custom |-> responses[3]]), 0)

(* no_internal_terms_proof.main *)
NitTrigger == entry = "no_internal_terms" /\ pc = "trigger" /\ TriggerStep("export")

NitExport == entry = "no_internal_terms" /\ pc = "export" /\ ExportStep("headers", "verify", FALSE)

\* lines 192-196
internal_terms_passed(response, request_hash, hit_count) ==
    IF response.status = 200 THEN hit_count = 0 /\ request_hash # NONE
    ELSE IF response.status = 400 THEN has_internal_term_gate_issue(response)
    ELSE FALSE

\* lines 198-205
internal_terms_output(response, request_hash, hit_count) ==
    [raised |-> NONE,
     request_hash |-> request_hash,
     status |-> response.status,
     forbidden_hit_count |-> hit_count,
     blocked_by_internal_term_gate |-> has_internal_term_gate_issue(response),
     passed |-> internal_terms_passed(response, request_hash, hit_count)]

\* lines 189-190, once the layout was read: read_layout_texts returns []
\* without a parsed layout
internal_terms_judged(response, request_hash, layout) ==
    IF ~layout.found THEN internal_terms_output(response, request_hash, 0)
    ELSE IF texts_raise(layout.doc)
    THEN [raised |-> "AttributeError", request_hash |-> request_hash]
    ELSE internal_terms_output(response, request_hash, Cardinality(forbidden_hits(layout.doc)))

internal_terms_hashed(response, request_hash, store) ==
    internal_terms_judged(response, request_hash, load_layout(store, request_hash))

\* lines 183-205
internal_terms_result(response, store) ==
    internal_terms_hashed(response, returned_hash("headers", response), store)

NitVerified(result) ==
    IF result.raised # NONE
    THEN Crash(result.raised, Event("verify_raise", caseNo, result.request_hash))
    ELSE /\ results' = Append(results, result)
         /\ log' = log \o << Event("resolve", caseNo, result.request_hash),
                             Event("verify", caseNo, result.request_hash) >>
         /\ pc' = "report"
         /\ UNCHANGED <<otherVars, mtime, entry, images, jobs, caseNo, responses, locals,
                        report, exitCode, uncaught, snap>>

NitVerify ==
    /\ entry = "no_internal_terms"
    /\ pc = "verify"
    /\ NitVerified(internal_terms_result(responses[1], jobs))

\* lines 206-209
NitReport ==
    /\ entry = "no_internal_terms"
    /\ pc = "report"
    /\ PrintAndExit(Report(TRUE, results[1].passed, NoFlags),
                    IF results[1].passed THEN 0 ELSE 1)

(* no_domain_copy_proof.scan_file and main *)
\* the ASCII patterns of PATTERNS, lower-cased (they are compiled with
\* re.IGNORECASE).  The four Hangul patterns are left out: the source lines
\* below are ASCII, on which they never match
DOMAIN_PATTERNS ==
    { <<"n", "a", "t", "u", "r", "e", "_", "c", "a", "m", "p", "a", "i", "g", "n">>,
      <<"b", "2", "b", "_", "b", "r", "o", "c", "h", "u", "r", "e">>,
      <<"b", "2", "b", "_", "s", "e", "r", "v", "i", "c", "e">> }

ALLOWED_EXTENSIONS == {".ts", ".tsx", ".js", ".jsx"}

\* path.suffix.lower()
suffix_lower(suffix) ==
    CASE suffix = ".TS" -> ".ts"
      [] suffix = ".Tsx" -> ".tsx"
      [] OTHER -> suffix

SourceFile(suffix, lines) == [suffix |-> suffix, lines |-> lines]

CLEAN_LINE == <<"c", "o", "n", "s", "t", " ", "b", "2", "b", " ", "=", " ", "1">>
HIT_LINE == <<"t", " ", "=", " ", "B", "2", "B", "_", "S", "e", "r", "v", "i", "c", "e">>
TWO_HIT_LINE == <<"N", "a", "t", "u", "r", "e", "_", "C", "a", "m", "p", "a", "i", "g", "n", " ", "b", "2", "b", "_", "b", "r", "o", "c", "h", "u", "r", "e">>

\* what rglob("*") may find under src/ and app/
SourceTrees ==
    { <<>>,
      <<SourceFile(".ts", <<CLEAN_LINE>>)>>,
      <<SourceFile(".TS", <<CLEAN_LINE, HIT_LINE>>)>>,
      <<SourceFile(".md", <<HIT_LINE>>)>>,
      <<SourceFile(".jsx", <<CLEAN_LINE>>), SourceFile(".Tsx", <<TWO_HIT_LINE, HIT_LINE>>)>> }

\* scan_file(path): one hit per line and pattern that matches
scan_file(file, index) ==
    UNION { { <<index, n, pattern>> :
                pattern \in { q \in DOMAIN_PATTERNS : Contains(q, lower(file.lines[n])) } } :
            n \in DOMAIN file.lines }

\* lines 42-50
findings_of(tree) ==
    UNION { IF suffix_lower(tree[i].suffix) \in ALLOWED_EXTENSIONS
            THEN scan_file(tree[i], i) ELSE {} : i \in DOMAIN tree }

\* lines 52-56
domain_copy_output(finding_count) ==
    [passed |-> finding_count = 0, finding_count |-> finding_count]

DcScan ==
    /\ entry = "no_domain_copy"
    /\ pc = "scan"
    /\ \E tree \in SourceTrees :
          results' = Append(results, domain_copy_output(Cardinality(findings_of(tree))))
    /\ log' = Append(log, Event("scan", caseNo, NONE))
    /\ pc' = "report"
    /\ UNCHANGED <<otherVars, mtime, entry, images, jobs, caseNo, responses, locals, report,
                   exitCode, uncaught, snap>>

\* lines 57-60
DcReport ==
    /\ entry = "no_domain_copy"
    /\ pc = "report"
    /\ PrintAndExit(Report(TRUE, results[1].passed, NoFlags),
                    IF results[1].finding_count > 0 THEN 1 ELSE 0)

\* results = [run_case(case) for case in cases]: on to the next case, or
\* out of the loop
NextCase ==
    /\ pc = "case_next"
    /\ IF caseNo < CaseCount(entry)
       THEN /\ caseNo' = caseNo + 1
            /\ responses' = <<>>
            /\ pc' = FirstStep(entry)
       ELSE /\ pc' = "report"
            /\ UNCHANGED <<caseNo, responses>>
    /\ UNCHANGED <<otherVars, mtime, entry, images, jobs, locals, results, report, exitCode,
                   uncaught, log, snap>>

\* passed = all(result.get("passed") for result in results)
all_passed(rs) == \A i \in DOMAIN rs : rs[i].passed

\* lines 214-223 (and copy_density_proof lines 242-252)
CasesReport ==
    /\ entry \in {"content_completeness", "copy_density"}
    /\ pc = "report"
    /\ LET passed == all_passed(results)
       IN  PrintAndExit(Report(TRUE, passed, NoFlags), IF passed THEN 0 ELSE 1)

Next ==
    \/ EnsureTestImages
    \/ DetTrigger \/ DetExportA \/ DetExportB \/ DetReport
    \/ GateNormal \/ GateBlocked \/ GateReport
    \/ IsoTriggerA \/ IsoExportA \/ IsoDigestBefore \/ IsoTriggerB \/ IsoExportB \/ IsoReport
    \/ CompleteTrigger \/ CompleteExport \/ CompleteVerify
    \/ CopyExport \/ CopyVerify
    \/ LdLatestBefore \/ LdTrigger \/ LdResolve \/ LdVerify \/ LdReport
    \/ RgTrigger \/ RgExportBlocked \/ RgExportAllowed \/ RgReport
    \/ RiTrigger \/ RiReadIndex \/ RiTouch \/ RiExportStale \/ RiExportRebuilt \/ RiReport
    \/ RtInspect \/ RtReport
    \/ NitTrigger \/ NitExport \/ NitVerify \/ NitReport
    \/ DcScan \/ DcReport
    \/ NextCase \/ CasesReport

Spec == Init /\ [][Next]_vars

(***************************************************************************)
(* The claims.                                                             *)
(***************************************************************************)
MultiCaseEntries == {"content_completeness", "copy_density"}
Ended == pc \in {"done", "crashed"}

\* C1: every entry point that runs to its end has printed one report that
\* has a boolean `passed`, and exits 0 when it is true and 1 otherwise.
C1_ReportHasPassedAndExitFollows ==
    pc = "done" =>
        /\ Len(report) = 1
        /\ report[1].has_passed
        /\ exitCode = (IF report[1].passed THEN 0 ELSE 1)

\* C2: in the multi-case runners the printed `passed` is true iff every
\* case's verdict is true, and the process exits non-zero iff some case's
\* verdict is false.
C2_ExitNonZeroIffSomeCaseFailed ==
    (entry \in MultiCaseEntries /\ Ended) =>
        /\ Len(report) = 1 => (report[1].passed <=> \A i \in DOMAIN results : results[i].passed)
        /\ exitCode # 0 <=> \E i \in DOMAIN results : ~results[i].passed

\* C3: in the multi-case runners, whatever happens to a case, every case is
\* executed and one aggregated report is printed.
C3_AllCasesRunAndReportPrinted ==
    (entry \in MultiCaseEntries /\ Ended) =>
        /\ Len(results) = CaseCount(entry)
        /\ Len(report) = 1

\* C4: a transport fault of a trigger or export call is recorded in a field
\* of the affected case's result and reported; it does not end the process
\* with an exception.
TransportFaultSeen ==
    \E i \in DOMAIN log :
        /\ log[i].op \in {"trigger_fault", "export_fault"}
        /\ log[i].key \in {"URLError", "TimeoutError"}

C4_TransportFaultIsRecorded ==
    TransportFaultSeen =>
        /\ uncaught = NONE
        /\ pc = "done" =>
              /\ Len(report) = 1
              /\ \E i \in DOMAIN results : "transport_fault" \in DOMAIN results[i]

\* C5: for every HTTP response with status >= 400 and every body,
\* post_export returns a record carrying that status and raises nothing,
\* and the record's body is structured exactly when the body is JSON.
BodyIsStructuredJson(body) == body.kind \in {"dict", "list", "emptylist"}

C5_PostExportReturnsOnHttpError ==
    ( /\ norm.called
      /\ wire.variant \in {"headers", "determinism", "isolation"}
      /\ wire.exchange.fault = "none"
      /\ wire.exchange.status >= 400 ) =>
        /\ norm.result.raised = NONE
        /\ norm.result.status = wire.exchange.status
        /\ norm.result.body.kind # "null" <=> BodyIsStructuredJson(wire.exchange.body)

\* C6: the determinism verdict is true iff both exports returned 200, the
\* request hashes are equal and non-empty and the audit hashes are equal
\* and non-empty.
NonEmptyHash(h) == h # NONE /\ h # EMPTY

C6_DeterminismVerdict ==
    (entry = "determinism" /\ pc = "done") =>
        LET run_a == responses[1]
            run_b == responses[2]
        IN  report[1].flags.determinism_passed <=>
                /\ run_a.status = 200
                /\ run_b.status = 200
                /\ NonEmptyHash(run_a.request_hash)
                /\ run_a.request_hash = run_b.request_hash
                /\ NonEmptyHash(run_a.audit_hash)
                /\ run_a.audit_hash = run_b.audit_hash

\* C7: in every case the steps come in the order trigger, export, artifact
\* resolution, verification: an export follows a completed trigger of its
\* case, and the artifact resolved is keyed by the hash that the case's own
\* export returned.
Earlier(i, op) == { j \in 1..(i - 1) : log[j].op = op /\ log[j].case = log[i].case }

C7_TriggerExportResolveVerify ==
    \A i \in DOMAIN log :
        /\ log[i].op = "export" => Earlier(i, "trigger") # {}
        /\ log[i].op = "resolve" => \E j \in Earlier(i, "export") : log[j].key = log[i].key
        /\ log[i].op = "verify" => Earlier(i, "resolve") # {}

\* C8: job A's 'before' digests are taken after A's export returned and
\* before B's trigger, the 'after' digests after B's export returned: when
\* A's files at the end differ from what they were when A's export
\* returned, job_a_files_stable is false.
DigestBeforeAt == { i \in DOMAIN log : log[i].op = "digest_before" }

C8_ChangeOfAFilesIsNoticed ==
    (entry = "job_isolation" /\ pc = "done") =>
        LET hash_a == responses[1].request_hash
        IN  /\ \A i \in DigestBeforeAt :
                  /\ \E j \in 1..(i - 1) : log[j].op = "export" /\ log[j].case = 1
                  /\ \A j \in 1..(i - 1) : log[j].case # 2
            /\ (hash_a # NONE /\ job_files(jobs, hash_a) # snap) =>
                  ~report[1].flags.job_a_files_stable

C8_Witness ==
    /\ entry = "job_isolation"
    /\ pc = "done"
    /\ responses[1].request_hash # NONE
    /\ snap.layout.exists
    /\ snap.audit.exists
    /\ job_files(jobs, responses[1].request_hash).layout = snap.layout
    /\ job_files(jobs, responses[1].request_hash).audit # snap.audit
    /\ ~report[1].flags.job_a_files_stable

\* C9: a case's content-completeness verdict is true iff the status is 200,
\* the layout under the returned request hash has at least one page, every
\* page satisfies the completeness metric, and each of the two gate headers
\* reads "pass" when it is present.
ClaimedLayoutPages(response) ==
    LET file == job_files(jobs, response.headers.request_hash).layout
    IN  IF response.headers.request_hash = NONE \/ ~file.exists
            \/ file.bytes \notin CatalogBytes
            \/ ~LayoutCatalog[file.bytes].isdict
            \/ LayoutCatalog[file.bytes].pages.tag # "list"
        THEN <<>>
        ELSE LayoutCatalog[file.bytes].pages.items

C9_CompletenessVerdict ==
    (entry = "content_completeness" /\ pc = "case_next") =>
        LET response == responses[1]
            pages == ClaimedLayoutPages(response)
        IN  results[caseNo].passed <=>
                /\ response.status = 200
                /\ Len(pages) >= 1
                /\ \A i \in DOMAIN pages : pages[i].isdict /\ page_has_minimum_content(pages[i])
                /\ response.headers.completeness \in {NONE, "pass"}
                /\ response.headers.internal_terms \in {NONE, "pass"}

\* C10: page_has_minimum_content(page) is true iff `elements` is a list
\* and, among its text elements that are not debug-only and whose stripped
\* text has at least two characters, one has an id containing "title" and
\* not "subtitle" (case-insensitively) and one has an id containing "body"
\* or "callout" or a text that begins with "- "; one element may be both.
ClaimedId(element) == lower(str_get(element.id))
ClaimedText(element) == strip(str_get(element.text))

ClaimedEligible(element) ==
    /\ element.isdict
    /\ element.type = "text"
    /\ element.debugOnly # "true"
    /\ Len(ClaimedText(element)) >= 2

ClaimedTitleLike(element) ==
    Contains(TITLE, ClaimedId(element)) /\ ~Contains(SUBTITLE, ClaimedId(element))

ClaimedBodyLike(element) ==
    \/ Contains(BODY, ClaimedId(element))
    \/ Contains(CALLOUT, ClaimedId(element))
    \/ startswith(ClaimedText(element), BULLET)

MissedThresholds(density, threshold) ==
    { name \in {"text_chars", "text_blocks", "body_font_min_pt"} :
        CASE name = "text_chars" -> density.text_chars < threshold.min_chars
          [] name = "text_blocks" -> density.text_blocks < threshold.min_blocks
          [] name = "body_font_min_pt" ->
                density.body_font_min_pt < 1000 * threshold.min_body_font_pt }

FailuresOfPage(result, n) ==
    { result.failures[f].reason : f \in { g \in DOMAIN result.failures :
                                            result.failures[g].page = n } }

C11_OneFailurePerMissedThreshold ==
    entry = "copy_density" =>
        \A i \in DOMAIN results :
            \A n \in DOMAIN results[i].densities :
                FailuresOfPage(results[i], n)
                    = MissedThresholds(results[i].densities[n], CopyThreshold(results[i].name))

\* C12: a copy-density case's verdict is true iff the status is 200, at
\* least one page was resolved, and every page has text_chars >= min_chars,
\* text_blocks >= min_blocks and body_font_min_pt >= min_body_font_pt, the
\* counts being over the non-debug text elements whose role is not header
\* and whose whitespace-collapsed text is non-empty, and the font minimum
\* over those of them whose id contains body, callout, table or flow.
ClaimedDensityPages(request_hash) ==
    IF request_hash = NONE THEN <<>>
    ELSE IF ~job_files(jobs, request_hash).layout.exists THEN <<>>
    ELSE IF job_files(jobs, request_hash).layout.bytes \notin CatalogBytes THEN <<>>
    ELSE IF ~LayoutCatalog[job_files(jobs, request_hash).layout.bytes].isdict THEN <<>>
    ELSE LayoutCatalog[job_files(jobs, request_hash).layout.bytes].pages.items

ClaimedCollapsed(element) == strip(split_join(str_or_empty(element.text)))

ClaimedCountedElements(p) ==
    { j \in DOMAIN p.elements.items :
        /\ p.elements.items[j].isdict
        /\ p.elements.items[j].type = "text"
        /\ ~Truthy(p.elements.items[j].debugOnly)
        /\ str_or_empty(p.elements.items[j].role) # HEADER
        /\ ClaimedCollapsed(p.elements.items[j]) # <<>> }

ClaimedTextChars(p) ==
    SumValues([j \in ClaimedCountedElements(p) |-> Len(ClaimedCollapsed(p.elements.items[j]))],
              ClaimedCountedElements(p))

ClaimedBodyFonts(p) ==
    { float_or_zero(p.elements.items[j].fontSizePt) :
        j \in { k \in ClaimedCountedElements(p) :
                  is_body_like(lower(str_or_empty(p.elements.items[k].id))) } }

ClaimedPageMeets(p, threshold) ==
    /\ ClaimedTextChars(p) >= threshold.min_chars
    /\ Cardinality(ClaimedCountedElements(p)) >= threshold.min_blocks
    /\ ClaimedBodyFonts(p) # {}
    /\ \A size \in ClaimedBodyFonts(p) : size >= 1000 * threshold.min_body_font_pt

ClaimedCopyVerdict(response, pages, threshold) ==
    /\ response.status = 200
    /\ \E n \in DOMAIN pages : pages[n].isdict
    /\ \A n \in DOMAIN pages : pages[n].isdict => ClaimedPageMeets(pages[n], threshold)

C12_CopyDensityVerdict ==
    (entry = "copy_density" /\ pc = "case_next") =>
        (results[caseNo].passed <=>
            ClaimedCopyVerdict(responses[1],
                               ClaimedDensityPages(returned_hash("headers", responses[1])),
                               CopyThreshold(caseNo)))

\* C13: the layout-density verdict is true iff at least 4 pages were
\* evaluated, no page carries a "content-density" issue and every page
\* passes validate_page; every page is evaluated, and every failing page and
\* every page with such an issue is listed.
ClaimedBrochurePages(request_hash) ==
    IF job_files(jobs, request_hash).layout.bytes \notin CatalogBytes THEN <<>>
    ELSE IF ~LayoutCatalog[job_files(jobs, request_hash).layout.bytes].isdict THEN <<>>
    ELSE LayoutCatalog[job_files(jobs, request_hash).layout.bytes].pages.items

ClaimedEvaluated(pages) == { n \in DOMAIN pages : pages[n].isdict }

ClaimedFailing(pages) ==
    { n \in ClaimedEvaluated(pages) : validate_page(page_density(pages[n])) # NONE }

ClaimedFlagged(pages) ==
    { n \in ClaimedEvaluated(pages) :
        \E i \in DOMAIN pages[n].issues : pages[n].issues[i] = "content-density" }

ClaimedLayoutVerdict(result, pages) ==
    /\ result.passed <=>
          /\ Cardinality(ClaimedEvaluated(pages)) >= 4
          /\ ClaimedFlagged(pages) = {}
          /\ ClaimedFailing(pages) = {}
    /\ result.page_count = Cardinality(ClaimedEvaluated(pages))
    /\ { result.failures[i].page : i \in DOMAIN result.failures } = ClaimedFailing(pages)
    /\ { result.density_issues[i] : i \in DOMAIN result.density_issues } = ClaimedFlagged(pages)

C13_LayoutDensityVerdict ==
    (entry = "layout_density" /\ pc = "report") =>
        ClaimedLayoutVerdict(results[1], ClaimedBrochurePages(locals.request_hash))

C13_Witness ==
    /\ entry = "layout_density"
    /\ pc = "report"
    /\ ~results[1].passed
    /\ results[1].page_count = 5
    /\ Len(results[1].failures) = 2
    /\ Len(results[1].density_issues) = 1

\* C14: on a rejected export the internal-term verdict is true iff the
\* status is a client error (any 4xx) and the body's exportAuditIssues list
\* has a message naming internal term leakage; it is false for every status
\* that is neither a success nor a client error.
IsClientError(status) == status >= 400 /\ status <= 499
IsSuccess(status) == status >= 200 /\ status <= 299

C14_RejectedExportVerdict ==
    (entry = "no_internal_terms" /\ pc = "report") =>
        /\ IsClientError(responses[1].status) =>
              (results[1].passed <=> issue_mentions(responses[1].body, INTERNAL_TERM_MARKER))
        /\ (~IsSuccess(responses[1].status) /\ ~IsClientError(responses[1].status)) =>
              ~results[1].passed

\* C15: has_reference_source_gate_issue(response) is true iff the body is
\* an object whose exportAuditIssues list has, for each of the two markers,
\* an issue message containing it (in the same message or in different
\* ones); it is true only for a response with status >= 400.
ClaimedMessages(body) ==
    IF body.kind = "dict" /\ body.exportAuditIssues.islist
    THEN { str_get(body.exportAuditIssues.items[i].message) :
             i \in { k \in DOMAIN body.exportAuditIssues.items :
                       body.exportAuditIssues.items[k].isdict } }
    ELSE {}

ClaimedNamesBoth(body) ==
    \A marker \in {STYLE_MARKER, LAYOUT_MARKER} :
        \E message \in ClaimedMessages(body) : Contains(marker, message)

OpsOf(history) == [i \in DOMAIN history |-> history[i].op]

\* some message of the issue list of an export names the stale index
ClaimedStale(response) ==
    \E m \in ClaimedMessages(response.body) : Contains(m, FRESH_MARKER)

\* C16: a reference-freshness run that ends has made exactly these calls, in
\* this order: regeneration trigger, forward-dating of one reference asset,
\* export E1, regeneration trigger, export E2; E2 sent the payload E1 sent;
\* the stale flag says whether E1's issue list names the stale index and the
\* unblocked flag says whether E2's status is 200
C16_FreshnessRunOrder ==
    (entry = "reference_index" /\ pc = "done" /\ uncaught = NONE) =>
        /\ OpsOf(log) = <<"trigger", "touch", "export", "trigger", "export">>
        /\ log[2].key # NONE
        /\ log[5].payload = log[3].payload
        /\ report[1].flags.stale_blocked_by_reference_gate = ClaimedStale(responses[1])
        /\ report[1].flags.rebuild_unblocked = (responses[2].status = 200)

(* C17 *)
ClaimedFields ==
    {"jobId", "variantIndex", "seed", "pageSizePreset", "pageWidthMm", "pageHeightMm"}

\* C17: every export request of every entry point carries a job identifier,
\* a variant index, a seed and the page geometry
C17_PayloadAlwaysIncludes ==
    \A i \in DOMAIN log :
        "payload" \in DOMAIN log[i] => ClaimedFields \subseteq DOMAIN log[i].payload

(* C19 *)
\* the image files of images/ when call i of the history returned
DirAfter(i) == IF i < Len(log) THEN log[i + 1].found ELSE images

\* C19: over any sequence of ensure_test_images calls, a call writes files
\* only when it found no image in images/, no call after a writing call
\* writes, no call removes or overwrites an image it found, and each call
\* returns the number of image files present when it returns
C19_FixtureIdempotent ==
    pc = "idle" =>
        \A i \in DOMAIN log :
            /\ log[i].written # {} => log[i].found = {}
            /\ \A j \in DOMAIN log : (i < j /\ log[i].written # {}) => log[j].written = {}
            /\ log[i].found \subseteq DirAfter(i)
            /\ log[i].written \cap log[i].found = {}
            /\ log[i].returned = Cardinality(DirAfter(i))

\* a call that found nothing copied ten of eleven references, and a later
\* call by another entry point wrote nothing and returned ten
C19_Witness ==
    /\ pc = "idle"
    /\ Len(log) = 2
    /\ log[1].found = {} /\ Cardinality(log[1].written) = 10
    /\ log[2].caller # log[1].caller
    /\ log[2].written = {} /\ log[2].returned = 10

(* C18 *)
\* the calls of the history that write to the file system, and where the
\* claim lets them write
ClaimedWriteOps == {"copy", "screenshot", "touch"}

ClaimedWriteAllowed(event) ==
    \/ event.op = "touch"
    \/ event.key \in {"images", "tmp"}

\* the step is a request the service served
ServedRequest ==
    /\ Len(log') = Len(log) + 1
    /\ log'[Len(log')].op \in {"trigger", "export"}

\* C18: the artifact store changes only while the service serves a request,
\* never in a step of the harness alone; what the harness writes goes to
\* images/, to tmp/, or is the modification time of a reference asset, and a
\* run forward-dates at most one
C18_HarnessWritesOnlyFixtures ==
    [][/\ jobs' # jobs => ServedRequest
       /\ \A i \in DOMAIN log' :
             log'[i].op \in ClaimedWriteOps => ClaimedWriteAllowed(log'[i])
       /\ Cardinality({ i \in DOMAIN log' : log'[i].op = "touch" }) <= 1]_vars

\* the runtime check has written its three screenshots
C18_Witness ==
    /\ entry = "runtime_gate"
    /\ pc = "done"
    /\ { log[i].op : i \in DOMAIN log } = {"screenshot"}
    /\ Len(log) = 3

(* C20 *)
ArtifactReaders ==
    {"content_completeness", "copy_density", "layout_density", "no_internal_terms",
     "job_isolation"}

\* no directory or no layout.json for the hash, or bytes json.loads rejects
ClaimedAbsent(store, request_hash) ==
    \/ request_hash = NONE
    \/ ~job_files(store, request_hash).layout.exists
    \/ ~json_loads_layout(job_files(store, request_hash).layout.bytes).ok

\* C20: a check that reads layout.json never ends in an exception raised
\* while it reads and judges a layout that is missing or is not JSON
C20_ArtifactReadsNeverRaise ==
    (/\ entry \in ArtifactReaders
     /\ pc = "crashed"
     /\ log[Len(log)].op \in {"verify_raise", "inspect_raise"})
        => ~ClaimedAbsent(jobs, log[Len(log)].key)

(* C21 *)
\* the field with its default in place of absent or null
ClaimedString(field) == IF field.tag = "str" THEN field ELSE Str(<<>>)

ClaimedNumber(field) == IF field.tag = "num" THEN field ELSE Num(0)

ClaimedElement(element) ==
    [element EXCEPT !.id = ClaimedString(@), !.role = ClaimedString(@),
                    !.text = ClaimedString(@), !.collisionGroup = ClaimedString(@),
                    !.fontSizePt = ClaimedNumber(@), !.wMm = ClaimedNumber(@),
                    !.hMm = ClaimedNumber(@),
                    !.debugOnly = IF @ = "true" THEN "true" ELSE "false"]

\* the layout with every absent or null optional field set to its default:
\* no pages, no elements, zero, the empty string, not debug-only
ClaimedDefaults(layout) ==
    [pages |-> "list",
     p |-> IF layout.pages # "list" THEN FieldPage(Num(0), Num(0), "list", <<>>)
           ELSE [layout.p EXCEPT
                    !.widthMm = ClaimedNumber(@), !.heightMm = ClaimedNumber(@),
                    !.elements = [tag |-> "list",
                                  items |-> [i \in DOMAIN @.items |-> ClaimedElement(@.items[i])]]]]

\* C21: on a layout whose optional fields are absent or null the four
\* extractors raise nothing and return what they return when each such
\* field holds its default (zero, the empty string)
C21_ExtractorsTotal ==
    pageResult.evaluated =>
        /\ pageResult.value.copy.raised = NONE
        /\ pageResult.value.layout.raised = NONE
        /\ pageResult.value.texts.raised = NONE
        /\ pageResult.value.minimum_content = page_has_minimum_content(ClaimedDefaults(page).p)
        /\ pageResult.value.copy = collect_page_density(ClaimedDefaults(page).p)
        /\ pageResult.value.layout = page_density_call(ClaimedDefaults(page).p)

(* C22 *)
\* the export calls of the history, in order
IsExportCall(event) == event.op = "export"

ExportCalls == SelectSeq(log, IsExportCall)

DiffersOnlyInVariant(p, q) ==
    /\ DOMAIN p = DOMAIN q
    /\ p.variantIndex # q.variantIndex
    /\ \A k \in DOMAIN p \ {"variantIndex"} : p[k] = q[k]

\* the variant-sensitivity verdict of the claim over the calls of a run:
\* call i of the history is answered by responses[i]
ClaimedVariantVerdict ==
    /\ \A i \in DOMAIN responses : responses[i].status = 200
    /\ \A i, j \in DOMAIN ExportCalls :
          ExportCalls[i].payload = ExportCalls[j].payload
              => responses[i].audit_hash = responses[j].audit_hash
    /\ \E i, j \in DOMAIN ExportCalls :
          /\ DiffersOnlyInVariant(ExportCalls[i].payload, ExportCalls[j].payload)
          /\ responses[i].audit_hash # responses[j].audit_hash

\* C22: the verdict of the determinism run, the only one drawn from audit
\* hashes of repeated calls, is the variant-sensitivity verdict
C22_VariantSensitivityVerdict ==
    (entry = "determinism" /\ pc = "done" /\ uncaught = NONE) =>
        (report[1].flags.determinism_passed <=> ClaimedVariantVerdict)

(* C23 *)
ClaimedNumberOf(field) == IF field.tag = "num" THEN field.n ELSE 0

ClaimedAreaOf(element) == ClaimedNumberOf(element.wMm) * ClaimedNumberOf(element.hMm)

\* the elements that contribute: not a line, not debug-only, not one of the
\* four roles, of positive area
ClaimedContributing(items) ==
    { i \in DOMAIN items :
        /\ items[i].isdict
        /\ items[i].type # "line"
        /\ items[i].debugOnly # "true"
        /\ ~(items[i].role.tag = "str" /\ items[i].role.s \in SkippedRoles)
        /\ ClaimedAreaOf(items[i]) > 0 }

ClaimedNonBlank(field) == field.tag = "str" /\ \E c \in DOMAIN field.s : ~IsSpace(field.s[c])

\* the group of element i: its collisionGroup, else its id, else its type
\* and its position counted from zero
ClaimedGroupOf(element, i) ==
    IF ClaimedNonBlank(element.collisionGroup) THEN strip(element.collisionGroup.s)
    ELSE IF ClaimedNonBlank(element.id) THEN strip(element.id.s)
    ELSE TypeChars(element.type) \o <<"-">> \o Digits(i - 1)

ClaimedGroups(items) == { ClaimedGroupOf(items[i], i) : i \in ClaimedContributing(items) }

\* the largest area in group g
ClaimedLargest(items, g) ==
    CHOOSE a \in { ClaimedAreaOf(items[i]) : i \in ClaimedContributing(items) } :
        /\ \E i \in ClaimedContributing(items) :
              ClaimedGroupOf(items[i], i) = g /\ ClaimedAreaOf(items[i]) = a
        /\ \A i \in ClaimedContributing(items) :
              ClaimedGroupOf(items[i], i) = g => ClaimedAreaOf(items[i]) <= a

ClaimedCovered(items) ==
    SumValues([g \in ClaimedGroups(items) |-> ClaimedLargest(items, g)], ClaimedGroups(items))

ClaimedPageArea(p) ==
    Max(1, ClaimedNumberOf(p.widthMm)) * Max(1, ClaimedNumberOf(p.heightMm))

\* C23: coverage is the sum over groups of the largest contributing area in
\* the group over the page area (to four decimals), and content_groups is
\* the number of those groups
C23_CoverageByGroupMaxima ==
    pageResult.evaluated =>
        /\ pageResult.value.coverage_ratio
              = round4(ClaimedCovered(page.elements.items), ClaimedPageArea(page))
        /\ pageResult.value.content_groups = Cardinality(ClaimedGroups(page.elements.items))

\* two elements of group "g", one by collisionGroup and one by id, of
\* different areas: one group of the larger area
C23_Witness ==
    /\ pageResult.evaluated
    /\ page.widthMm = Num(210)
    /\ Len(page.elements.items) = 2
    /\ ClaimedContributing(page.elements.items) = {1, 2}
    /\ ClaimedAreaOf(page.elements.items[1]) # ClaimedAreaOf(page.elements.items[2])
    /\ pageResult.value.content_groups = 1
    /\ pageResult.value.coverage_ratio = round4(58000, 62370)

(* C24 *)
ThresholdSet(chars, coverage, groups) ==
    [chars |-> chars, coverage |-> coverage, groups |-> groups]

ClaimedSectionSet == ThresholdSet(70, 2200, 3)

ClaimedTextOnlySet == ThresholdSet(78, 2200, 3)

ClaimedGeneralSet == ThresholdSet(58, 1800, 2)

\* the one set that applies, by precedence; names compared without case
ClaimedSetOf(density) ==
    IF \/ lower(density.template) = lower(SECTION_DIVIDER)
       \/ lower(density.role) = SectionDividerRole
    THEN ClaimedSectionSet
    ELSE IF lower(density.role) = TextOnlyRole THEN ClaimedTextOnlySet
    ELSE ClaimedGeneralSet

ClaimedMeets(density, set) ==
    /\ density.text_chars >= set.chars
    /\ density.coverage_ratio >= set.coverage
    /\ density.content_groups >= set.groups

\* C24: a page passes validate_page iff it meets the one threshold set its
\* template and role select (section-divider before text-only before
\* general, a value at the minimum passing), and whatever meets the
\* section-divider or the text-only set meets the general set
C24_OneThresholdSetByPrecedence ==
    pageResult.evaluated =>
        /\ pageResult.value = NONE <=> ClaimedMeets(page, ClaimedSetOf(page))
        /\ ClaimedMeets(page, ClaimedSectionSet) => ClaimedMeets(page, ClaimedGeneralSet)
        /\ ClaimedMeets(page, ClaimedTextOnlySet) => ClaimedMeets(page, ClaimedGeneralSet)

\* a text-only page on the section-divider template passes with 70
\* characters: the section-divider set applies, not the text-only one
C24_Witness ==
    /\ pageResult.evaluated
    /\ pageResult.value = NONE
    /\ page.role = TextOnlyRole
    /\ page.template = lower(SECTION_DIVIDER)
    /\ page.text_chars = 70 /\ page.coverage_ratio = 2200 /\ page.content_groups = 3

(* C25 *)
\* C25: on a status-200 export the leakage verdict is true only if the
\* layout of the returned request hash was found and parsed and none of its
\* text items matches a forbidden pattern
C25_PassNeedsParsedLayout ==
    (/\ entry = "no_internal_terms"
     /\ pc = "report"
     /\ responses[1].status = 200
     /\ results[1].passed)
        => /\ ~ClaimedAbsent(jobs, results[1].request_hash)
           /\ forbidden_hits(json_loads_layout(job_files(jobs, results[1].request_hash).layout.bytes).doc) = {}

(* C26 *)
\* the layout of the job is there, parses to an object and records the
\* job's own hash
ClaimedRecordsOwnHash(store, request_hash) ==
    /\ ~ClaimedAbsent(store, request_hash)
    /\ json_loads_layout(job_files(store, request_hash).layout.bytes).doc.isdict
    /\ json_loads_layout(job_files(store, request_hash).layout.bytes).doc.requestHash
          = request_hash

\* C26: in the job-isolation report no flag is true on missing evidence:
\* hashes_different needs both hashes, job_a_files_stable needs both of A's
\* files to have been there before B ran, job_b_files_exist needs B's hash,
\* and layout_a/b_hash_matches need a layout that is there, parses and
\* records the job's own hash
C26_MissingEvidenceIsNeverPositive ==
    (entry = "job_isolation" /\ pc = "done") =>
        LET hash_a == responses[1].request_hash
            hash_b == responses[2].request_hash
            flags == report[1].flags
        IN  /\ flags.hashes_different => (hash_a # NONE /\ hash_b # NONE)
            /\ flags.job_a_files_stable =>
                  (hash_a # NONE /\ snap.layout.exists /\ snap.audit.exists)
            /\ flags.job_b_files_exist => hash_b # NONE
            /\ flags.layout_a_hash_matches => ClaimedRecordsOwnHash(jobs, hash_a)
            /\ flags.layout_b_hash_matches => ClaimedRecordsOwnHash(jobs, hash_b)

\* A's hash came back but A's audit file was absent before B ran and still
\* is: not reported as stable
C26_Witness ==
    /\ entry = "job_isolation"
    /\ pc = "done"
    /\ responses[1].request_hash # NONE
    /\ snap.layout.exists
    /\ ~snap.audit.exists
    /\ job_files(jobs, responses[1].request_hash) = snap
    /\ ~report[1].flags.job_a_files_stable

(* C27 *)
\* C27: the layout the layout-density check resolves and evaluates was
\* written by its own trigger: its modification time is later than that of
\* the newest layout seen before the trigger
C27_EvaluatesOwnArtifact ==
    (entry = "layout_density" /\ locals.request_hash # NONE) =>
        mtime[locals.request_hash] > locals.before_mtime

(* C28 *)
\* C28: for every page, page_density divides by a page area of at least 1
\* and returns a coverage_ratio between 0 and 1 inclusive (0 to 10000
\* ten-thousandths)
C28_CoverageIsAFraction ==
    pageResult.evaluated =>
        /\ page_side(page.widthMm) * page_side(page.heightMm) >= 1
        /\ pageResult.value.coverage_ratio >= 0
        /\ pageResult.value.coverage_ratio <= 10000

====
